---- MODULE Spec2Model ----
(***************************************************************************)
(* Annotation synchronisation engine of pdfjs-annotation-extension         *)
(* (PdfjsAnnotationExtension, src/index.tsx): document load handling,      *)
(* restore-on-startup guard, local document cache, remote GET/POST sync,   *)
(* debounced autosave and dirty-state tracking.                            *)
(*                                                                         *)
(* Scheduling is the browser's single-threaded event loop: every action    *)
(* below is one synchronous turn (an event handler, or the continuation    *)
(* of an await).  The documentloaded handler's synchronous prefix is       *)
(* split into its statements (hpc) and no other turn runs in between.      *)
(***************************************************************************)
EXTENDS Integers, Sequences, FiniteSets, TLC

\* ------------------------------------------------------------------ bounds
MaxActions == 3    \* user actions in one session: opens, edits, clicks on save
MaxCoord == 2      \* largest coordinate and extent of a geometry, in page units
MaxPage == 4       \* largest page number handed to compressContinuousPages
MaxLen == 3        \* longest page list handed to compressContinuousPages

\* ------------------------------------------------------- program constants
autoSaveDelay == 2 \* debounce delay, in units of 1000 ms

\* ------------------------------------------------------------- value sets
Docs    == {"docA", "docB"}          \* fingerprints
NoDoc   == "none"                    \* null / undefined document
NoHash  == -1                        \* initialDataHash = null
NoTimer == 0                         \* autoSaveTimer = null
NoInfo  == [fingerprint |-> NoDoc, url |-> ""]
NoRange == "null"                    \* lastSelectionRange = null
NoId    == 0                         \* _lastCreatedAnnotationId = null
NoFetch == 0                         \* abortRef.current = null
NoAdd   == -1                        \* no add-to-annotation in this chat session so far
Values  == {0, 1}                    \* values of a record's mutable fields

DocIndex(d) == IF d = "docA" THEN 0 ELSE IF d = "docB" THEN 1 ELSE 2

\* the remote backend's annotation array for a docId: one record, id 1
RemoteRecord(d) == [id |-> 1, doc |-> d, text |-> 0, comments |-> 0, color |-> 0, pos |-> 0,
                    date |-> 0]

\* --------------------------------------------------------------- sequences
RECURSIVE SeqFilterOutId(_, _)
SeqFilterOutId(s, id) ==
    IF s = <<>> THEN <<>>
    ELSE IF Head(s).id = id THEN SeqFilterOutId(Tail(s), id)
         ELSE <<Head(s)>> \o SeqFilterOutId(Tail(s), id)

RemoveAt(s, i) == [j \in 1..(Len(s) - 1) |-> IF j < i THEN s[j] ELSE s[j + 1]]

Ids(s) == {s[i].id : i \in 1..Len(s)}

\* ------------------------------------------------------------------- state
VARIABLES
    getUrl,                 \* appOptions[HASH_PARAMS_GET_URL] is set
    postUrl,                \* appOptions[HASH_PARAMS_POST_URL] is set
    lsInfo,                 \* localStorage 'pdfjs-annotation-extension-last-document'
    blobs,                  \* IndexedDB 'files' store: fingerprint -> bytes (of which document)
    blobWrites,             \* saveDocumentData calls in flight
    idbSchema,              \* the blob database: "none", "legacy" (older version) or "current"
    pdfLoadingTask,         \* PDFViewerApplication.pdfLoadingTask
    pdfDocument,            \* PDFViewerApplication.pdfDocument (its fingerprint)
    viewerUrl,              \* PDFViewerApplication.url
    taskDestroyed,          \* the loading task was destroyed before it completed
    loadOrigin,             \* who issued the open of the current loading task
    hostOpened,             \* the host has issued its default-document open
    isRestoring, restoringFingerprint,
    restorePc,              \* position of restoreLastDocument
    restoreInfo,            \* its local documentInfo (read from localStorage at its start)
    restoreFrom,            \* restore source: cached bytes or fallback URL
    initialDataHash,
    store,                  \* painter's annotation store (painter.getData())
    panel,                  \* comment panel's annotations state
    hpc, hfp, htarget,      \* documentloaded handler: position, currentFp, isTargetRestored
    gets,                   \* annotation GETs in flight, one per suspended handler
    saves,                  \* annotation POSTs in flight
    autoSaveTimer,          \* handle of the last scheduled timer
    timers,                 \* the event loop's pending timeouts
    timerSeq,               \* next timer handle
    nextId,                 \* next id handed out to a created annotation
    actions,                \* number of user actions so far (opens, edits, saves)
    edits,                  \* number of those that were edits
    sinceTrigger,           \* time since the last triggerAutoSave (capped at the delay)
    selection,              \* window.getSelection(): "none", a "caret" or selected "text"
    isSelecting,            \* WebSelection: a text selection was seen since the last mouseup
    lastSelectionRange,     \* the engine's saved Range (null, collapsed or spanning text)
    currentRange, popbarShow,   \* selection popbar: its range and whether it is shown
    isChatPopupOpen,
    chatPc,                 \* the popbar's send-to-AI handler: "idle" or awaiting the page text
    pendingCreationToken,   \* _pendingCreationToken / _pendingTranscript are set
    lastCreatedAnnotationId,
    geom,                   \* geometry normalizer: input, screen form and round trip
    compress,               \* compressContinuousPages: its input and its result
    konvaGroups,            \* note editor: ids of the shape groups on the background layer
    isPainting,             \* note editor: Editor.isPainting
    bodyClasses,            \* document.body: which of the two 'hidden' classes are present
    toolbar,                \* CustomToolbar state: sidebarOpen, chatSidebarOpen
    chatShow, messages, isLoading,  \* ChatPopup state: show, messages, isLoading
    abortRef,               \* ChatPopup: the request abortRef.current belongs to (0 for null)
    fetches,                \* ChatPopup: /api/chat requests whose sendMessage has not returned
    fetchSeq,               \* next request number
    chatEpoch,              \* history: how many times the popup's open() has run
    displayTexts,           \* ids of the records whose contentsObj carries a displayText
    chatSession,            \* history of the chat popup's session: the id counter at its
                            \* open() and what its first add-to-annotation created
    lastEvent,              \* what the last turn did
    hist                    \* session history: what has ever been written / issued

vars == <<getUrl, postUrl, lsInfo, blobs, blobWrites, idbSchema, pdfLoadingTask,
          pdfDocument, viewerUrl, taskDestroyed, loadOrigin, hostOpened,
          isRestoring, restoringFingerprint, restorePc, restoreInfo, restoreFrom,
          initialDataHash, store, panel, hpc, hfp, htarget, gets, saves,
          autoSaveTimer, timers, timerSeq, nextId, actions, edits,
          sinceTrigger, selection, isSelecting, lastSelectionRange, currentRange,
          popbarShow, isChatPopupOpen, chatPc, pendingCreationToken,
          lastCreatedAnnotationId, geom, compress, konvaGroups, isPainting, bodyClasses, toolbar,
          chatShow, messages, isLoading, abortRef, fetches, fetchSeq, chatEpoch,
          chatSession, displayTexts,
          lastEvent, hist>>

noteVars    == <<konvaGroups, isPainting>>
sidebarVars == <<bodyClasses, toolbar>>
popupVars   == <<chatShow, messages, isLoading, abortRef, fetches, fetchSeq, chatEpoch>>
widgetVars  == <<noteVars, sidebarVars, popupVars, chatSession, displayTexts>>   \* state of the editors and widgets
configVars  == <<getUrl, postUrl, geom, compress, widgetVars>>  \* what no handler of the engine changes
viewerVars  == <<pdfLoadingTask, pdfDocument, viewerUrl, taskDestroyed, loadOrigin>>
guardVars   == <<isRestoring, restoringFingerprint>>
restoreVars == <<restorePc, restoreInfo, restoreFrom>>
cacheVars   == <<lsInfo, blobs, blobWrites, idbSchema>>
handlerVars == <<hpc, hfp, htarget>>
timerVars   == <<autoSaveTimer, timers, timerSeq, sinceTrigger>>
popbarVars  == <<currentRange, popbarShow>>
chatVars    == <<isChatPopupOpen, chatPc>>
createVars  == <<pendingCreationToken, lastCreatedAnnotationId>>
selectionVars == <<selection, isSelecting, lastSelectionRange, popbarVars, chatVars, createVars>>


DocIds == Docs \cup {"default"}      \* docId query parameter (fingerprint || 'default')
RemotePayload(docId) == IF docId \in Docs THEN <<RemoteRecord(docId)>> ELSE <<>>
TargetDoc  == "docA"                 \* fingerprint of the last saved DocumentInfo
DefaultDoc == "docB"                 \* the host's default / sample document

\* -------------------------------------------------------------- dirty hash
\* hashArrayOfObjects (utils): a deterministic digest of the serialised array.
RecordCode(r) ==
    r.id + 8 * (DocIndex(r.doc) + 3 * (r.text + 2 * (r.comments + 2 * (r.color + 2 * (r.pos
                                                                              + 2 * r.date)))))

HashBase == 1009
HashModulus == 2000003

RECURSIVE HashFrom(_, _)
HashFrom(h, s) ==
    IF s = <<>> THEN h
    ELSE HashFrom((h * HashBase + RecordCode(Head(s))) % HashModulus, Tail(s))

hashArrayOfObjects(array) == HashFrom(0, array)

\* painter.getData(): the store's record array
getData_painter == store

hasUnsavedChanges_count == Len(getData_painter) # 0

hasUnsavedChanges == hashArrayOfObjects(getData_painter) # initialDataHash

\* fingerprint || 'default' of the GET / POST urls
DocIdOf_default(fp) == "default"

DocIdOf(fp) == IF fp = NoDoc THEN "default" ELSE fp

\* ---------------------------------------------------------------- autosave
TimerDue == \E t \in timers : t.rem = 0

clearTimeout(handle) == {t \in timers : t.id # handle}

\* triggerAutoSave: cancel the previous timer, schedule a new one
triggerAutoSave_noCancel ==
    /\ timers' = timers \cup {[id |-> timerSeq, rem |-> autoSaveDelay]}
    /\ autoSaveTimer' = timerSeq
    /\ timerSeq' = timerSeq + 1
    /\ sinceTrigger' = 0

triggerAutoSave ==
    /\ timers' = (IF autoSaveTimer # NoTimer THEN clearTimeout(autoSaveTimer) ELSE timers)
                    \cup {[id |-> timerSeq, rem |-> autoSaveDelay]}
    /\ autoSaveTimer' = timerSeq
    /\ timerSeq' = timerSeq + 1
    /\ sinceTrigger' = 0

\* Painter callback onStoreAdd for the records added in one turn
onStoreAdd_ignoreOriginal(annotations, isOriginal) ==
    /\ panel' = panel \o annotations
    /\ IF annotations = <<>> THEN UNCHANGED timerVars ELSE triggerAutoSave

onStoreAdd(annotations, isOriginal) ==
    /\ panel' = panel \o annotations
    /\ IF isOriginal \/ annotations = <<>>
       THEN UNCHANGED timerVars
       ELSE triggerAutoSave

\* ------------------------------------------------- compressContinuousPages
NoCompress == [pc |-> "none"]

\* [...pages].sort((a, b) => a - b)
RECURSIVE Insert(_, _)
Insert(sorted, x) ==
    IF sorted = <<>> THEN <<x>>
    ELSE IF x < Head(sorted) THEN <<x>> \o sorted
    ELSE <<Head(sorted)>> \o Insert(Tail(sorted), x)

RECURSIVE sort(_)
sort(pages) == IF pages = <<>> THEN <<>> ELSE Insert(sort(SubSeq(pages, 1, Len(pages) - 1)),
                                                     pages[Len(pages)])

\* the inner loop: while (i + 1 < sorted.length && sorted[i + 1] === end + 1) { i++; end++ }
\* (i counts from 1 here); the index at which it stops
RECURSIVE runEnd(_, _)
runEnd(sorted, i) ==
    IF i + 1 <= Len(sorted) /\ sorted[i + 1] = sorted[i] + 1
    THEN runEnd(sorted, i + 1)
    ELSE i

\* the outer loop from index i on
RECURSIVE compressFrom(_, _)
compressFrom(sorted, i) ==
    IF i > Len(sorted) THEN <<>>
    ELSE LET j == runEnd(sorted, i)
             start == sorted[i]
             end == sorted[j]
             item == IF start = end THEN [type |-> "single", page |-> start]
                     ELSE [type |-> "range", start |-> start, end |-> end]
         IN <<item>> \o compressFrom(sorted, j + 1)

compressContinuousPages(pages) == compressFrom(sort(pages), 1)

RECURSIVE SeqsUpTo(_, _)
SeqsUpTo(S, n) ==
    IF n = 0 THEN {<<>>}
    ELSE LET shorter == SeqsUpTo(S, n - 1)
         IN shorter \cup {Append(q, x) : q \in shorter, x \in S}

\* the page lists handed to the function: any order, repeats allowed
PageLists == SeqsUpTo(1..MaxPage, MaxLen)

\* ---------------------------------------------------------------- sidebars
\* toggleComment(open) on the body's classes: opening the comment sidebar adds
\* the chat sidebar's hidden class, closing it adds its own
toggleComment(classes, open) ==
    IF open
    THEN [commentHidden |-> FALSE, chatHidden |-> TRUE]
    ELSE [classes EXCEPT !.commentHidden = TRUE]

\* toggleChatSidebar(open) on the body's classes
toggleChatSidebar_keepComment(classes, open) ==
    [classes EXCEPT !.chatHidden = ~open]

toggleChatSidebar(classes, open) ==
    IF open
    THEN [commentHidden |-> TRUE, chatHidden |-> FALSE]
    ELSE [classes EXCEPT !.chatHidden = TRUE]

\* addCustomStyle, called by init() before the toolbar is rendered
addCustomStyle(defaultSidebarOpen) ==
    toggleChatSidebar(toggleComment([commentHidden |-> FALSE, chatHidden |-> FALSE],
                                    defaultSidebarOpen),
                      FALSE)

\* the body's classes and the toolbar's state once init() has run
SidebarsAfterInit(defaultSidebarOpen) ==
    /\ bodyClasses = addCustomStyle(defaultSidebarOpen)
    /\ toolbar = [sidebarOpen |-> defaultSidebarOpen, chatSidebarOpen |-> FALSE]

\* ----------------------------------------------------------------- initial
InitCommon ==
    /\ getUrl \in BOOLEAN
    /\ postUrl \in BOOLEAN
    /\ blobWrites = {}
    /\ pdfLoadingTask = NoDoc /\ pdfDocument = NoDoc /\ viewerUrl = ""
    /\ taskDestroyed = FALSE /\ loadOrigin = "none"
    /\ hostOpened = FALSE
    /\ initialDataHash = NoHash
    /\ store = <<>> /\ panel = <<>>
    /\ hpc = "idle" /\ hfp = NoDoc /\ htarget = FALSE
    /\ gets = <<>> /\ saves = <<>>
    /\ autoSaveTimer = NoTimer /\ timers = {} /\ timerSeq = 1
    /\ nextId = 2 /\ actions = 0 /\ edits = 0
    /\ sinceTrigger = autoSaveDelay
    /\ selection = "none" /\ isSelecting = FALSE /\ lastSelectionRange = NoRange
    /\ currentRange = NoRange /\ popbarShow = FALSE
    /\ isChatPopupOpen = FALSE /\ chatPc = "idle"
    /\ pendingCreationToken = FALSE /\ lastCreatedAnnotationId = NoId
    /\ konvaGroups = {} /\ isPainting = FALSE
    /\ chatSession = [start |-> 0, first |-> NoAdd]
    /\ displayTexts = {}
    /\ chatShow = FALSE /\ messages = <<>> /\ isLoading = FALSE
    /\ abortRef = NoFetch /\ fetches = {} /\ fetchSeq = 1 /\ chatEpoch = 0
    /\ lastEvent = [kind |-> "init"]

\* --------------------------------------------------- geometry normalizer
\* Lengths on screen are kept in half pixels, so that zoom 0.5 is exact.
Zooms2 == {1, 2, 4, 6}               \* twice the zoom factor: 0.5, 1, 2, 3
Rotations == {0, 90, 180, 270}
PageWidth == 2 * MaxCoord            \* page size in page units: every geometry fits
PageHeight == 2 * MaxCoord + 1
NoGeom == [pc |-> "none"]

Geometries ==
    [x : 0..MaxCoord, y : 0..MaxCoord, w : 1..MaxCoord, h : 1..MaxCoord]

Viewports == [zoom2 : Zooms2, rotation : Rotations]

\* the rectangle as it lies on the page turned clockwise by the rotation
Rotate(g, rotation) ==
    IF rotation = 90 THEN [x |-> PageHeight - g.y - g.h, y |-> g.x, w |-> g.h, h |-> g.w]
    ELSE IF rotation = 180
         THEN [x |-> PageWidth - g.x - g.w, y |-> PageHeight - g.y - g.h, w |-> g.w, h |-> g.h]
    ELSE IF rotation = 270
         THEN [x |-> g.y, y |-> PageWidth - g.x - g.w, w |-> g.h, h |-> g.w]
    ELSE g

\* the rectangle of a turned page as it lies on the upright page
Unrotate(g, rotation) ==
    IF rotation = 90 THEN [x |-> g.y, y |-> PageHeight - g.x - g.w, w |-> g.h, h |-> g.w]
    ELSE IF rotation = 180
         THEN [x |-> PageWidth - g.x - g.w, y |-> PageHeight - g.y - g.h, w |-> g.w, h |-> g.h]
    ELSE IF rotation = 270
         THEN [x |-> PageWidth - g.y - g.h, y |-> g.x, w |-> g.h, h |-> g.w]
    ELSE g

Scale(g, k) == [x |-> g.x * k, y |-> g.y * k, w |-> g.w * k, h |-> g.h * k]

Unscale(g, k) == [x |-> g.x \div k, y |-> g.y \div k, w |-> g.w \div k, h |-> g.h \div k]

toScreen(normalizedGeometry, viewport) ==
    Scale(Rotate(normalizedGeometry, viewport.rotation), viewport.zoom2)

toNormalized_noRotation(screenGeometry, viewport) ==
    Unscale(screenGeometry, viewport.zoom2)

toNormalized(screenGeometry, viewport) ==
    Unrotate(Unscale(screenGeometry, viewport.zoom2), viewport.rotation)

\* a geometry and a viewport to convert; the engine is not started
InitGeometry ==
    /\ InitCommon
    /\ lsInfo = NoInfo
    /\ blobs = [d \in Docs |-> NoDoc]
    /\ idbSchema = "current"
    /\ isRestoring = FALSE /\ restoringFingerprint = NoDoc
    /\ restorePc = "done" /\ restoreInfo = NoInfo /\ restoreFrom = "none"
    /\ hist = [defaultPersisted |-> FALSE, targetLoaded |-> FALSE, cachedAtStart |-> FALSE,
               schemaAtStart |-> "current",
               triggers |-> 0, close |-> 0, autoPosts |-> 0, baseline |-> <<>>, restoreLog |-> <<>>,
               lastKept |-> NoDoc, timerDoc |-> NoDoc]
    /\ geom \in {[pc |-> "input", g |-> g, v |-> v] : g \in Geometries, v \in Viewports}
    /\ SidebarsAfterInit(FALSE)
    /\ compress = NoCompress

\* a page is rendered: the geometry is converted for the page's viewport
ToScreen ==
    /\ geom.pc = "input"
    /\ geom' = [pc |-> "screen", g |-> geom.g, v |-> geom.v, screen |-> toScreen(geom.g, geom.v)]
    /\ UNCHANGED <<getUrl, postUrl, compress, widgetVars, selectionVars, cacheVars, viewerVars, hostOpened, guardVars,
                   restoreVars, initialDataHash, store, panel, handlerVars, gets, saves,
                   timerVars, nextId, actions, edits, lastEvent, hist>>

\* a gesture ends: the on-screen geometry is converted back
ToNormalized ==
    /\ geom.pc = "screen"
    /\ geom' = [pc |-> "done", g |-> geom.g, v |-> geom.v, screen |-> geom.screen,
                back |-> toNormalized(geom.screen, geom.v)]
    /\ UNCHANGED <<getUrl, postUrl, compress, widgetVars, selectionVars, cacheVars, viewerVars, hostOpened, guardVars,
                   restoreVars, initialDataHash, store, panel, handlerVars, gets, saves,
                   timerVars, nextId, actions, edits, lastEvent, hist>>

NextGeometry ==
    \/ ToScreen
    \/ ToNormalized

\* conversions of one geometry under one viewport
SpecGeometry == InitGeometry /\ [][NextGeometry]_vars

\* No DocumentInfo in localStorage: the constructor leaves the guard unset and
\* restoreLastDocument returns false in its first turn.
InitNoDocumentInfo ==
    /\ InitCommon
    /\ geom = NoGeom
    /\ compress = NoCompress
    /\ lsInfo = NoInfo
    /\ blobs = [d \in Docs |-> NoDoc]
    /\ idbSchema = "current"
    /\ isRestoring = FALSE /\ restoringFingerprint = NoDoc
    /\ restorePc = "done" /\ restoreInfo = NoInfo /\ restoreFrom = "none"
    /\ hist = [defaultPersisted |-> FALSE, targetLoaded |-> FALSE, cachedAtStart |-> FALSE,
               schemaAtStart |-> "current",
               triggers |-> 0, close |-> 0, autoPosts |-> 0, baseline |-> <<>>, restoreLog |-> <<>>,
               lastKept |-> NoDoc, timerDoc |-> NoDoc]

\* the comment sidebar starts closed (DEFAULT_SIDEBAR_OPEN is not 'true')
Init == InitNoDocumentInfo /\ SidebarsAfterInit(FALSE)

\* the same start, with either setting of DEFAULT_SIDEBAR_OPEN
InitSidebar == InitNoDocumentInfo /\ \E d \in BOOLEAN : SidebarsAfterInit(d)

\* constructor: the guard is pre-marked from the saved DocumentInfo, before
\* init() binds the documentloaded handler
premarkGuard_late == isRestoring = FALSE /\ restoringFingerprint = NoDoc

premarkGuard == isRestoring = TRUE /\ restoringFingerprint = lsInfo.fingerprint

\* A DocumentInfo for TargetDoc is in localStorage: the constructor pre-marks the
\* guard, and restoreLastDocument is suspended in getDataFromIndexedDB.
InitRestore ==
    /\ InitCommon
    /\ geom = NoGeom
    /\ lsInfo \in {[fingerprint |-> TargetDoc, url |-> u] : u \in {"http", "blob", ""}}
    /\ blobs \in {[d \in Docs |-> IF d = TargetDoc THEN b ELSE NoDoc] : b \in {TargetDoc, NoDoc}}
    /\ idbSchema \in {"none", "legacy", "current"}
    /\ idbSchema = "none" => blobs[TargetDoc] = NoDoc
    /\ premarkGuard
    /\ hist = [defaultPersisted |-> FALSE, targetLoaded |-> FALSE,
               cachedAtStart |-> (blobs[TargetDoc] # NoDoc /\ idbSchema = "current"),
               schemaAtStart |-> idbSchema,
               triggers |-> 0, close |-> 0, autoPosts |-> 0, baseline |-> <<>>, restoreLog |-> <<>>,
               lastKept |-> NoDoc, timerDoc |-> NoDoc]
    /\ restorePc = "idb" /\ restoreInfo = lsInfo /\ restoreFrom = "none"
    /\ SidebarsAfterInit(FALSE)
    /\ compress = NoCompress

\* ------------------------------------------------------------------ viewer
Idle == hpc = "idle"

\* docA is served over http, docB is a local file opened through a blob: URL
UrlOf(d) == IF d = "docA" THEN "http" ELSE "blob"

\* PDFViewerApplication.open: closes what is open, then starts a loading task
ViewerOpen(d, url, origin) ==
    /\ pdfLoadingTask' = d
    /\ pdfDocument' = NoDoc
    /\ viewerUrl' = url
    /\ taskDestroyed' = FALSE
    /\ loadOrigin' = origin

\* the user opens a document (by URL, or a local file as a blob: URL)
UserOpen ==
    /\ Idle
    /\ actions < MaxActions
    /\ \E d \in Docs : ViewerOpen(d, UrlOf(d), "user")
    /\ actions' = actions + 1
    /\ lastEvent' = [kind |-> "open"]
    /\ UNCHANGED <<selectionVars, configVars, cacheVars, hostOpened, guardVars, restoreVars,
                   initialDataHash, store, panel, handlerVars, gets, saves, timerVars,
                   nextId, edits, hist>>

\* the host application opens its default document, once
HostOpenDefault ==
    /\ Idle
    /\ ~hostOpened
    /\ hostOpened' = TRUE
    /\ ViewerOpen(DefaultDoc, UrlOf(DefaultDoc), "host")
    /\ lastEvent' = [kind |-> "open"]
    /\ UNCHANGED <<selectionVars, configVars, cacheVars, guardVars, restoreVars,
                   initialDataHash, store, panel, handlerVars, gets, saves, timerVars,
                   nextId, actions, edits, hist>>

\* ------------------------------------------------ documentloaded handler
\* painter.resetForNewDocument(): the store is cleared
resetForNewDocument == store' = <<>>

\* customCommentRef.clearAnnotations()
clearAnnotations_skip == UNCHANGED panel

clearAnnotations == panel' = <<>>

\* The loading task completes and the viewer dispatches documentloaded; the
\* handler resets the store and the panel and reads the guard.
DocumentLoaded ==
    /\ Idle
    /\ pdfLoadingTask # NoDoc /\ pdfDocument = NoDoc /\ ~taskDestroyed
    /\ pdfDocument' = pdfLoadingTask
    /\ resetForNewDocument
    /\ clearAnnotations
    /\ hfp' = pdfLoadingTask
    /\ htarget' = (isRestoring /\ restoringFingerprint = pdfLoadingTask)
    /\ hpc' = "reset"
    /\ lastEvent' = [kind |-> "documentloaded", fp |-> pdfLoadingTask]
    /\ hist' = [hist EXCEPT !.targetLoaded = @ \/ (pdfLoadingTask = TargetDoc),
                            !.lastKept = IF isRestoring /\ restoringFingerprint # pdfLoadingTask
                                         THEN @ ELSE pdfLoadingTask]
    /\ UNCHANGED <<selectionVars, configVars, cacheVars, pdfLoadingTask, viewerUrl, taskDestroyed,
                   loadOrigin, hostOpened, guardVars, restoreVars, initialDataHash,
                   gets, saves, timerVars, nextId, actions, edits>>

\* saveCurrentDocument up to its first await: DocumentInfo goes to localStorage,
\* then saveDocumentData starts for the captured pdfDocument
saveCurrentDocument_blobOnly ==
    /\ blobWrites' = blobWrites \cup {[fingerprint |-> pdfDocument, data |-> pdfDocument]}
    /\ UNCHANGED <<lsInfo, blobs, idbSchema>>

saveCurrentDocument ==
    /\ lsInfo' = [fingerprint |-> pdfDocument, url |-> viewerUrl]
    /\ blobWrites' = blobWrites \cup {[fingerprint |-> pdfDocument, data |-> pdfDocument]}
    /\ UNCHANGED <<blobs, idbSchema>>

\* if (!this.isRestoring || isTargetRestored) saveCurrentDocument()
HandlerSave ==
    /\ hpc = "reset"
    /\ IF ~isRestoring \/ htarget
       THEN /\ saveCurrentDocument
            /\ hist' = [hist EXCEPT !.defaultPersisted = @ \/ (loadOrigin = "host")]
       ELSE UNCHANGED <<cacheVars, hist>>
    /\ hpc' = "saved"
    /\ lastEvent' = [kind |-> "handlersave", saved |-> (~isRestoring \/ htarget)]
    /\ UNCHANGED <<selectionVars, configVars, viewerVars, hostOpened, guardVars, restoreVars,
                   initialDataHash, store, panel, hfp, htarget, gets, saves, timerVars,
                   nextId, actions, edits>>


\* painter.initAnnotations(data, ...): the payload replaces the store's content,
\* every record is reported through onStoreAdd with isOriginal = true
initAnnotations(data) ==
    /\ store' = data
    /\ onStoreAdd(data, TRUE)

\* if (isTargetRestored) { isRestoring = false; restoringFingerprint = null }
releaseGuard_any(isTargetRestored) ==
    isRestoring' = FALSE /\ restoringFingerprint' = NoDoc

releaseGuard(isTargetRestored) ==
    IF isTargetRestored
    THEN isRestoring' = FALSE /\ restoringFingerprint' = NoDoc
    ELSE UNCHANGED guardVars

\* The handler after `await this.getData()`: baseline hash, payload into the
\* store, and the guard is released when this load was the restore target.
LoadContinuation(data, isTargetRestored) ==
    /\ initialDataHash' = hashArrayOfObjects(data)
    /\ hist' = [hist EXCEPT !.baseline = data]
    /\ initAnnotations(data)
    /\ releaseGuard(isTargetRestored)

\* getData up to its fetch.  Without a GET url it returns [] and the handler
\* continues in the same turn.
HandlerGet ==
    /\ hpc = "saved"
    /\ hpc' = "idle"
    /\ IF getUrl
       THEN /\ gets' = Append(gets, [docId |-> DocIdOf(pdfDocument), fp |-> hfp,
                                      target |-> htarget])
            /\ lastEvent' = [kind |-> "get", docId |-> DocIdOf(pdfDocument)]
            /\ UNCHANGED <<initialDataHash, store, panel, guardVars, timerVars, hist>>
       ELSE /\ LoadContinuation(<<>>, htarget)
            /\ lastEvent' = [kind |-> "loaded", fp |-> hfp, data |-> <<>>,
                             ok |-> TRUE, request |-> FALSE, dialog |-> FALSE]
            /\ UNCHANGED gets
    /\ UNCHANGED <<selectionVars, configVars, cacheVars, viewerVars, hostOpened, restoreVars,
                   hfp, htarget, saves, nextId, actions, edits>>

\* getData after its fetch: response.json() of a 2xx; a network error or a
\* non-2xx is caught, reported in a dialog, and [] is returned
getData_result_keep(ok, docId) == IF ok THEN RemotePayload(docId) ELSE getData_painter

getData_result(ok, docId) == IF ok THEN RemotePayload(docId) ELSE <<>>

\* The GET of a suspended handler completes and the handler resumes.
GetResponse ==
    /\ Idle
    /\ \E i \in 1..Len(gets), ok \in BOOLEAN :
         LET g == gets[i]
             data == getData_result(ok, g.docId)
         IN /\ LoadContinuation(data, g.target)
            /\ gets' = RemoveAt(gets, i)
            /\ lastEvent' = [kind |-> "loaded", fp |-> g.fp, data |-> data,
                             ok |-> ok, request |-> TRUE, dialog |-> ~ok]
    /\ UNCHANGED <<selectionVars, configVars, cacheVars, viewerVars, hostOpened, restoreVars,
                   handlerVars, saves, nextId, actions, edits>>

\* ---------------------------------------------------------- blob database
\* onupgradeneeded (write path and read path alike): an existing 'files' store
\* is deleted, then 'files' is created with keyPath 'fingerprint'
onupgradeneeded_keep(schema) == IF schema = "legacy" THEN "legacy" ELSE "current"

onupgradeneeded(schema) == "current"

\* indexedDB.open(name, 2): an older or missing database is upgraded
SchemaAfterOpen(opened) ==
    IF opened /\ idbSchema # "current" THEN onupgradeneeded(idbSchema) ELSE idbSchema

\* the entries that survive the open: an upgrade drops the old store
BlobsAfterOpen(opened) ==
    IF opened /\ idbSchema # "current" THEN [d \in Docs |-> NoDoc] ELSE blobs

\* pdfDocument.getData() of the document captured by saveCurrentDocument
documentBytes_current(w) == IF pdfDocument # NoDoc THEN pdfDocument ELSE w.data

documentBytes(w) == w.data

\* store.put({fingerprint, data, timestamp}) into the store keyed by fingerprint
put(entries, fingerprint, data) == [entries EXCEPT ![fingerprint] = data]

\* the awaited call of saveDocumentData that rejected, for each way it settles
rejectedCall(outcome) ==
    CASE outcome = "noData" -> "getData"
      [] outcome \in {"openFailed", "txFailed"} -> "saveDataToIndexedDB"
      [] OTHER -> "none"

\* the awaits inside saveDocumentData's try block, whose rejections its catch
\* logs and drops (saveCurrentDocument's own catch stands behind it)
saveDocumentData_try_bytesOnly == {"getData", "fetch"}

saveDocumentData_try == {"getData", "fetch", "saveDataToIndexedDB"}

\* saveDocumentData / saveDataToIndexedDB settle: the bytes could not be read,
\* the database could not be opened, the transaction failed, or the put
\* succeeded; every failure is logged and dropped
BlobWriteSettled ==
    /\ Idle
    /\ \E w \in blobWrites, outcome \in {"noData", "openFailed", "txFailed", "done"} :
         LET opened == outcome \in {"txFailed", "done"}
         IN /\ blobWrites' = blobWrites \ {w}
            /\ idbSchema' = SchemaAfterOpen(opened)
            /\ blobs' = IF outcome = "done" /\ idbSchema' = "current"
                        THEN put(BlobsAfterOpen(opened), w.fingerprint, documentBytes(w))
                        ELSE BlobsAfterOpen(opened)
            /\ lastEvent' = [kind |-> "blob", ok |-> (outcome = "done"), opened |-> opened,
                             fp |-> w.fingerprint,
                             unhandled |-> (rejectedCall(outcome) \notin
                                                saveDocumentData_try \cup {"none"})]
    /\ UNCHANGED <<selectionVars, configVars, lsInfo, viewerVars, hostOpened, guardVars,
                   restoreVars, initialDataHash, store, panel, handlerVars, gets, saves,
                   timerVars, nextId, actions, edits, hist>>

\* ------------------------------------------------------ restoreLastDocument
\* history of the restore: its calls and their settlements, in order
Logged(steps) == hist' = [hist EXCEPT !.restoreLog = @ \o steps]

\* if (documentInfo.url && !documentInfo.url.startsWith('blob:'))
useUrlFallback_any(url) == url # ""

useUrlFallback(url) == url # "" /\ url # "blob"

\* getDataFromIndexedDB resolves (null on any failure).  With bytes the guard is
\* set and the in-flight load is destroyed / closed; without bytes the saved URL
\* is used unless it is empty or a blob: URL.
RestoreIdbDone ==
    /\ Idle
    /\ restorePc = "idb"
    /\ \E outcome \in {"openFailed", "txFailed", "done"} :
         LET ok == outcome = "done"
             opened == outcome # "openFailed"
             data == IF ok /\ SchemaAfterOpen(opened) = "current"
                     THEN BlobsAfterOpen(opened)[restoreInfo.fingerprint] ELSE NoDoc
             useUrl == useUrlFallback(restoreInfo.url)
             proceed == data # NoDoc \/ useUrl
             destroy == pdfLoadingTask # NoDoc
         IN /\ IF data # NoDoc
               THEN /\ isRestoring' = TRUE
                    /\ restoringFingerprint' = restoreInfo.fingerprint
                    /\ restoreFrom' = "data"
               ELSE /\ UNCHANGED guardVars
                    /\ restoreFrom' = IF useUrl THEN "url" ELSE "none"
            /\ IF proceed
               THEN IF destroy
                    THEN /\ taskDestroyed' = TRUE      \* pdfLoadingTask.destroy()
                         /\ restorePc' = "destroying"
                    ELSE /\ UNCHANGED taskDestroyed    \* close() with no loading task
                         /\ restorePc' = "closing"
               ELSE /\ UNCHANGED taskDestroyed
                    /\ restorePc' = "done"             \* return false
            /\ Logged(<<"fetch">> \o (IF ~proceed THEN <<>>
                                      ELSE IF destroy THEN <<"destroy">> ELSE <<"close">>))
            /\ idbSchema' = SchemaAfterOpen(opened)
            /\ blobs' = BlobsAfterOpen(opened)
            /\ lastEvent' = [kind |-> "restore", step |-> "idb", found |-> (data # NoDoc),
                             readOk |-> ok, opened |-> opened, dialog |-> FALSE]
    /\ UNCHANGED <<selectionVars, configVars, lsInfo, blobWrites, pdfLoadingTask, pdfDocument, viewerUrl,
                   loadOrigin, hostOpened, restoreInfo, initialDataHash, store, panel,
                   handlerVars, gets, saves, timerVars, nextId, actions, edits>>

\* destroy() settled (a rejection is caught, the task then lives on);
\* PDFViewerApplication.close() is called
RestoreDestroySettled ==
    /\ Idle
    /\ restorePc = "destroying"
    /\ \E ok \in BOOLEAN :
         /\ taskDestroyed' = (taskDestroyed /\ ok)
         /\ Logged(<<IF ok THEN "destroyed" ELSE "destroyFailed", "close">>)
         /\ lastEvent' = [kind |-> "restore", step |-> "close", found |-> ok]
    /\ restorePc' = "closing"
    /\ UNCHANGED <<selectionVars, configVars, cacheVars, pdfLoadingTask, pdfDocument, viewerUrl, loadOrigin,
                   hostOpened, guardVars, restoreInfo, restoreFrom, initialDataHash,
                   store, panel, handlerVars, gets, saves, timerVars, nextId, actions, edits>>

\* the awaits that precede PDFViewerApplication.open have completed
RestoreReadyToOpen_early == restorePc \in {"destroying", "closing"}

RestoreReadyToOpen == restorePc = "closing"

\* close() settled (a rejection is caught); PDFViewerApplication.open is called
\* with the cached bytes or with the saved URL
RestoreCloseSettled ==
    /\ Idle
    /\ RestoreReadyToOpen
    /\ ViewerOpen(restoreInfo.fingerprint, IF restoreFrom = "url" THEN restoreInfo.url ELSE "",
                  "restore")
    /\ restorePc' = "done"
    /\ \E ok \in BOOLEAN :
         /\ Logged(<<IF ok THEN "closed" ELSE "closeFailed", "open">>)
         /\ lastEvent' = [kind |-> "restore", step |-> "open", found |-> ok]
    /\ UNCHANGED <<selectionVars, configVars, cacheVars, hostOpened, guardVars, restoreInfo,
                   restoreFrom, initialDataHash, store, panel, handlerVars, gets, saves,
                   timerVars, nextId, actions, edits>>

NextStartup ==
    \/ HostOpenDefault
    \/ DocumentLoaded
    \/ HandlerSave
    \/ HandlerGet
    \/ GetResponse
    \/ BlobWriteSettled
    \/ RestoreIdbDone
    \/ RestoreDestroySettled
    \/ RestoreCloseSettled

\* startup with a saved DocumentInfo: the restore and the host's default load only
SpecStartup == InitRestore /\ [][NextStartup]_vars

\* the user opens a document once restoreLastDocument has returned and the
\* requests of the loads before it have settled
UserOpenAfterRestore ==
    /\ restorePc = "done"
    /\ gets = <<>> /\ blobWrites = {}
    /\ UserOpen

NextSession ==
    \/ HostOpenDefault
    \/ DocumentLoaded
    \/ HandlerSave
    \/ HandlerGet
    \/ GetResponse
    \/ BlobWriteSettled
    \/ RestoreIdbDone
    \/ RestoreDestroySettled
    \/ RestoreCloseSettled
    \/ UserOpenAfterRestore

\* startup with a saved DocumentInfo, followed by the user's own opens
SpecSession == InitRestore /\ [][NextSession]_vars

\* -------------------------------------------------------------- user edits
CanEdit == Idle /\ pdfDocument # NoDoc /\ actions < MaxActions /\ ~TimerDue

Stamp == actions + 1    \* Date.now() of this edit, as its ordinal in the session

\* store.update: field-level merge into the record with this id, date refreshed
UpdateRecord(s, id, field, v) ==
    [i \in 1..Len(s) |->
        IF s[i].id = id
        THEN IF field = "text" THEN [s[i] EXCEPT !.text = v, !.date = Stamp]
             ELSE IF field = "comments" THEN [s[i] EXCEPT !.comments = v, !.date = Stamp]
             ELSE IF field = "color" THEN [s[i] EXCEPT !.color = v, !.date = Stamp]
             ELSE [s[i] EXCEPT !.pos = v, !.date = Stamp]
        ELSE s[i]]

RecordOf(s, id) == s[CHOOSE i \in 1..Len(s) : s[i].id = id]

\* a field the caller's object does not carry (undefined / null)
Absent == -1

\* the object handed to the comment panel, carrying one field
Partial(id, field, v) ==
    [id |-> id,
     text     |-> IF field = "text" THEN v ELSE Absent,
     comments |-> IF field = "comments" THEN v ELSE Absent,
     color    |-> IF field = "color" THEN v ELSE Absent,
     pos      |-> IF field = "pos" THEN v ELSE Absent]

\* updated.field ?? annotation.field
Coalesce_left(updated, current) == updated

Coalesce(updated, current) == IF updated # Absent THEN updated ELSE current

\* comment panel, updateAnnotation: the record with this id takes the fields the
\* update carries, keeps the others, and gets a new date
updateAnnotation(s, updatedAnnotation) ==
    [i \in 1..Len(s) |->
        IF s[i].id = updatedAnnotation.id
        THEN [s[i] EXCEPT !.text     = Coalesce(updatedAnnotation.text, @),
                          !.comments = Coalesce(updatedAnnotation.comments, @),
                          !.color    = Coalesce(updatedAnnotation.color, @),
                          !.pos      = Coalesce(updatedAnnotation.pos, @),
                          !.date     = Stamp]
        ELSE s[i]]

\* history of the triggering mutations: how many, and how many came less than
\* one delay after the previous one
NoteTrigger ==
    hist' = [hist EXCEPT !.triggers = @ + 1,
                         !.close = @ + (IF sinceTrigger < autoSaveDelay THEN 1 ELSE 0),
                         !.timerDoc = pdfDocument]

EditFrame == UNCHANGED <<configVars, cacheVars, viewerVars, hostOpened,
                         guardVars, restoreVars, initialDataHash, handlerVars, gets, saves>>

\* onStoreAdd for a created record, after triggerAutoSave: while a creation
\* token is pending the record becomes the last created one
noteCreated(id, token, lastId, isHighlight) ==
    /\ lastCreatedAnnotationId' = (IF token THEN id ELSE lastId)
    /\ pendingCreationToken' = (token /\ ~isHighlight)

\* a drawing gesture completes: the painter adds the record and calls onStoreAdd
AddAnnotation ==
    /\ CanEdit
    /\ LET annotation == [id |-> nextId, doc |-> pdfDocument, text |-> 0, comments |-> 0,
                          color |-> 0, pos |-> 0, date |-> Stamp]
       IN /\ store' = Append(store, annotation)
          /\ onStoreAdd(<<annotation>>, FALSE)
    /\ nextId' = nextId + 1
    /\ edits' = edits + 1
    /\ actions' = actions + 1
    /\ NoteTrigger
    /\ lastEvent' = [kind |-> "edit", op |-> "add"]
    /\ noteCreated(nextId, pendingCreationToken, lastCreatedAnnotationId, FALSE)
    /\ UNCHANGED <<selection, isSelecting, lastSelectionRange, popbarVars, chatVars>>
    /\ EditFrame

\* ------------------------------------------------------------- note editor
NoPos == -1                          \* getPointerPosition() returned null
DefaultAnchor == 50                  \* pos?.x ?? 50, pos?.y ?? 50
NoteColor == 1                       \* 'rgb(255, 222, 33)'
PointerPositions == Values \cup {NoPos}

\* const pos = pointer ? pointer : getRelativePointerPosition(); pos?.x ?? 50
noteAnchor_pointerOnly(pointer, relative) == pointer

noteAnchor(pointer, relative) ==
    LET pos == IF pointer # NoPos THEN pointer ELSE relative
    IN IF pos # NoPos THEN pos ELSE DefaultAnchor

\* if (e.currentTarget !== this.konvaStage) return
noteTargetAccepted_any(currentTarget) == TRUE

noteTargetAccepted(currentTarget) == currentTarget = "stage"

\* Editor.setShapeGroupDone: the finished shape is committed as one record with
\* the given id, which the painter adds to the store and reports to onStoreAdd
setShapeGroupDone(id, anchor) ==
    LET annotation == [id |-> id, doc |-> pdfDocument, text |-> 0, comments |-> 0,
                       color |-> NoteColor, pos |-> anchor, date |-> Stamp]
    IN /\ store' = Append(store, annotation)
       /\ onStoreAdd(<<annotation>>, FALSE)
       /\ noteCreated(id, pendingCreationToken, lastCreatedAnnotationId, FALSE)

\* mouseDownHandler() {} and mouseMoveHandler() {}
NotePointerDown ==
    /\ Idle /\ pdfDocument # NoDoc
    /\ lastEvent' = [kind |-> "notedown"]
    /\ UNCHANGED <<configVars, selectionVars, cacheVars, viewerVars, hostOpened, guardVars,
                   restoreVars, initialDataHash, store, panel, handlerVars, gets, saves,
                   timerVars, nextId, actions, edits, hist>>

NotePointerMove ==
    /\ Idle /\ pdfDocument # NoDoc
    /\ lastEvent' = [kind |-> "notemove"]
    /\ UNCHANGED <<configVars, selectionVars, cacheVars, viewerVars, hostOpened, guardVars,
                   restoreVars, initialDataHash, store, panel, handlerVars, gets, saves,
                   timerVars, nextId, actions, edits, hist>>

\* mouseUpHandler: away from the stage nothing happens; on the stage a shape
\* group is created and put on the layer, then committed under the group's id
NotePointerUp ==
    /\ CanEdit
    /\ actions' = actions + 1
    /\ \E currentTarget \in {"stage", "shape"}, pointer \in PointerPositions,
          relative \in PointerPositions :
         LET anchor == noteAnchor(pointer, relative)
             id == nextId                  \* createShapeGroup(): a group with a fresh id
         IN IF noteTargetAccepted(currentTarget)
            THEN /\ isPainting' = TRUE
                 /\ konvaGroups' = konvaGroups \cup {id}
                 /\ setShapeGroupDone(id, anchor)
                 /\ nextId' = nextId + 1
                 /\ edits' = edits + 1
                 /\ NoteTrigger
                 /\ lastEvent' = [kind |-> "noteup", committed |-> TRUE, id |-> id,
                                  target |-> currentTarget,
                                  pointer |-> pointer, relative |-> relative]
            ELSE /\ lastEvent' = [kind |-> "noteup", committed |-> FALSE, id |-> NoId,
                                  target |-> currentTarget,
                                  pointer |-> pointer, relative |-> relative]
                 /\ UNCHANGED <<noteVars, store, panel, timerVars, createVars, nextId,
                                edits, hist>>
    /\ UNCHANGED <<getUrl, postUrl, geom, compress, sidebarVars, popupVars, chatSession,
                   displayTexts,
                   selection, isSelecting, lastSelectionRange,
                   popbarVars, chatVars, cacheVars, viewerVars, hostOpened, guardVars,
                   restoreVars, initialDataHash, handlerVars, gets, saves>>

NextNote ==
    \/ UserOpen
    \/ DocumentLoaded
    \/ HandlerSave
    \/ HandlerGet
    \/ GetResponse
    \/ NotePointerDown
    \/ NotePointerMove
    \/ NotePointerUp

\* a session with the note tool armed
SpecNote == Init /\ [][NextNote]_vars

\* ------------------------------------------------------- sidebar controls
SidebarFrame == UNCHANGED <<getUrl, postUrl, geom, compress, noteVars, popupVars, chatSession, displayTexts, selectionVars,
                            cacheVars, viewerVars, hostOpened, guardVars, restoreVars,
                            initialDataHash, store, panel, handlerVars, gets, saves,
                            timerVars, nextId, actions, edits, hist>>

\* toolbar, the comment-sidebar button: handleSidebarOpen(sidebarOpen) calls
\* onSidebarOpen(!isOpen) -> toggleComment, which unselects the chat button when
\* it opens, then setSidebarOpen(!isOpen)
ToolbarSidebar ==
    /\ Idle
    /\ LET open == ~toolbar.sidebarOpen
       IN /\ bodyClasses' = toggleComment(bodyClasses, open)
          /\ toolbar' = [sidebarOpen |-> open,
                         chatSidebarOpen |-> IF open THEN FALSE ELSE toolbar.chatSidebarOpen]
          /\ lastEvent' = [kind |-> "sidebar", which |-> "comment", open |-> open,
                           otherWasOpen |-> ~bodyClasses.chatHidden]
    /\ SidebarFrame

\* toolbar, the chat-sidebar button: handleChatSidebarOpen(chatSidebarOpen)
ToolbarChatSidebar ==
    /\ Idle
    /\ LET open == ~toolbar.chatSidebarOpen
       IN /\ bodyClasses' = toggleChatSidebar(bodyClasses, open)
          /\ toolbar' = [sidebarOpen |-> IF open THEN FALSE ELSE toolbar.sidebarOpen,
                         chatSidebarOpen |-> open]
          /\ lastEvent' = [kind |-> "sidebar", which |-> "chat", open |-> open,
                           otherWasOpen |-> ~bodyClasses.commentHidden]
    /\ SidebarFrame

\* annotation menu, onOpenComment: toggleComment(true), toggleSidebarBtn(true)
MenuOpenComment ==
    /\ Idle
    /\ store # <<>>
    /\ bodyClasses' = toggleComment(bodyClasses, TRUE)
    /\ toolbar' = [sidebarOpen |-> TRUE, chatSidebarOpen |-> FALSE]
    /\ lastEvent' = [kind |-> "sidebar", which |-> "menu", open |-> TRUE,
                     otherWasOpen |-> ~bodyClasses.chatHidden]
    /\ SidebarFrame

NextSidebar ==
    \/ UserOpen
    \/ DocumentLoaded
    \/ HandlerSave
    \/ HandlerGet
    \/ GetResponse
    \/ ToolbarSidebar
    \/ ToolbarChatSidebar
    \/ MenuOpenComment

\* a session of document loads and sidebar toggles
SpecSidebar == InitSidebar /\ [][NextSidebar]_vars

\* -------------------------------------------------------------- chat popup
\* A message carries its role, the session (count of open() calls) whose
\* sendMessage created it, and the session whose text its content holds (0 while
\* the content is empty).
Message(role, session, content) == [role |-> role, session |-> session, content |-> content]

PopupFrame == UNCHANGED <<getUrl, postUrl, geom, compress, noteVars, sidebarVars, chatSession, displayTexts,
                          selectionVars, cacheVars, viewerVars, hostOpened, guardVars,
                          restoreVars, initialDataHash, store, panel, handlerVars, gets,
                          saves, timerVars, nextId, edits, hist>>

\* abortRef.current?.abort()
abort(requests, ref) == {IF f.id = ref THEN [f EXCEPT !.aborted = TRUE] ELSE f : f \in requests}

\* ChatPopupRef.open: the input and the message list are emptied and the popup
\* is shown; a request in flight, isLoading and abortRef are left as they are
PopupOpen ==
    /\ Idle
    /\ actions < MaxActions
    /\ actions' = actions + 1
    /\ messages' = <<>>
    /\ chatShow' = TRUE
    /\ chatEpoch' = chatEpoch + 1
    /\ lastEvent' = [kind |-> "popupopen", pending |-> (fetches # {})]
    /\ UNCHANGED <<isLoading, abortRef, fetches, fetchSeq>>
    /\ PopupFrame

\* sendMessage up to its fetch: the user's message is appended and a request
\* with a new AbortController is issued
PopupSend ==
    /\ Idle
    /\ chatShow /\ ~isLoading
    /\ actions < MaxActions
    /\ actions' = actions + 1
    /\ messages' = Append(messages, Message("user", chatEpoch, chatEpoch))
    /\ isLoading' = TRUE
    /\ abortRef' = fetchSeq
    /\ fetches' = fetches \cup {[id |-> fetchSeq, session |-> chatEpoch, stage |-> "fetch",
                                 aborted |-> FALSE]}
    /\ fetchSeq' = fetchSeq + 1
    /\ lastEvent' = [kind |-> "popupsend"]
    /\ UNCHANGED <<chatShow, chatEpoch>>
    /\ PopupFrame

\* sendMessage's finally block
sendFinally == isLoading' = FALSE /\ abortRef' = NoFetch

\* the fetch settles.  Aborted, it rejects with an AbortError, which adds no
\* message; a failure adds the error message; a 2xx adds the assistant's empty
\* message and the stream is read.
PopupFetchSettled ==
    /\ Idle
    /\ \E f \in fetches, ok \in BOOLEAN :
         /\ f.stage = "fetch"
         /\ IF f.aborted
            THEN /\ fetches' = fetches \ {f}
                 /\ sendFinally
                 /\ UNCHANGED messages
            ELSE IF ok
            THEN /\ fetches' = (fetches \ {f}) \cup {[f EXCEPT !.stage = "stream"]}
                 /\ messages' = Append(messages, Message("assistant", f.session, 0))
                 /\ UNCHANGED <<isLoading, abortRef>>
            ELSE /\ fetches' = fetches \ {f}
                 /\ messages' = Append(messages, Message("assistant", f.session, f.session))
                 /\ sendFinally
         /\ lastEvent' = [kind |-> "popupfetch", session |-> f.session,
                          aborted |-> f.aborted, ok |-> ok]
    /\ UNCHANGED <<chatShow, fetchSeq, chatEpoch, actions>>
    /\ PopupFrame

\* a chunk of the stream: the text so far is written into the last message of
\* the list when that is an assistant's message
PopupStreamChunk ==
    /\ Idle
    /\ \E f \in fetches :
         /\ f.stage = "stream" /\ ~f.aborted
         /\ messages' = IF messages # <<>> /\ messages[Len(messages)].role = "assistant"
                        THEN [messages EXCEPT ![Len(messages)].content = f.session]
                        ELSE messages
         /\ lastEvent' = [kind |-> "popupchunk", session |-> f.session]
    /\ UNCHANGED <<chatShow, isLoading, abortRef, fetches, fetchSeq, chatEpoch, actions>>
    /\ PopupFrame

\* the stream ends, or its read rejects after an abort
PopupStreamEnd ==
    /\ Idle
    /\ \E f \in fetches :
         /\ f.stage = "stream"
         /\ fetches' = fetches \ {f}
         /\ lastEvent' = [kind |-> "popupdone", session |-> f.session]
    /\ sendFinally
    /\ UNCHANGED <<chatShow, messages, fetchSeq, chatEpoch, actions>>
    /\ PopupFrame

\* the popup's close button: the request is aborted and the popup hidden
PopupCloseButton ==
    /\ Idle
    /\ chatShow
    /\ fetches' = abort(fetches, abortRef)
    /\ isLoading' = FALSE
    /\ abortRef' = NoFetch
    /\ chatShow' = FALSE
    /\ lastEvent' = [kind |-> "popupclose"]
    /\ UNCHANGED <<messages, fetchSeq, chatEpoch, actions>>
    /\ PopupFrame

\* clearChat: the request is aborted and the list emptied
PopupClearChat ==
    /\ Idle
    /\ chatShow /\ messages # <<>>
    /\ fetches' = abort(fetches, abortRef)
    /\ isLoading' = FALSE
    /\ messages' = <<>>
    /\ abortRef' = NoFetch
    /\ lastEvent' = [kind |-> "popupclear"]
    /\ UNCHANGED <<chatShow, fetchSeq, chatEpoch, actions>>
    /\ PopupFrame

\* handleAddToAnnotation: the messages with content, as the transcript
hasContent(m) == m.content # 0

transcript == SelectSeq(messages, hasContent)

NextPopup ==
    \/ PopupOpen
    \/ PopupSend
    \/ PopupFetchSettled
    \/ PopupStreamChunk
    \/ PopupStreamEnd
    \/ PopupCloseButton
    \/ PopupClearChat

\* sessions of the chat popup
SpecPopup == Init /\ [][NextPopup]_vars

\* painter.delete(id): the record leaves the store, onStoreDelete removes it
\* from the comment panel
delete_painter(id) ==
    /\ store' = SeqFilterOutId(store, id)
    /\ panel' = SeqFilterOutId(panel, id)

\* annotation menu, onDelete
MenuDelete ==
    /\ CanEdit
    /\ \E id \in Ids(store) :
         /\ delete_painter(id)
         /\ lastEvent' = [kind |-> "edit", op |-> "menudelete", id |-> id]
    /\ triggerAutoSave
    /\ edits' = edits + 1
    /\ actions' = actions + 1
    /\ NoteTrigger
    /\ UNCHANGED nextId
    /\ UNCHANGED selectionVars
    /\ EditFrame

\* comment panel, deleteAnnotation -> onDelete
PanelDelete ==
    /\ CanEdit
    /\ \E id \in Ids(panel) :
         /\ delete_painter(id)
         /\ lastEvent' = [kind |-> "edit", op |-> "paneldelete", id |-> id]
    /\ triggerAutoSave
    /\ edits' = edits + 1
    /\ actions' = actions + 1
    /\ NoteTrigger
    /\ UNCHANGED nextId
    /\ UNCHANGED selectionVars
    /\ EditFrame

\* comment panel, updateComment / addReply / updateReply -> onUpdate ->
\* painter.update(id, {title, contentsObj, comments}); the panel's record is
\* brought up to date through updateAnnotation
PanelUpdate ==
    /\ CanEdit
    /\ \E id \in Ids(panel), field \in {"text", "comments"}, v \in Values :
         /\ RecordOf(panel, id)[field] # v
         /\ store' = UpdateRecord(store, id, field, v)
         /\ panel' = updateAnnotation(panel, Partial(id, field, v))
         /\ lastEvent' = [kind |-> "edit", op |-> "panelupdate", id |-> id, field |-> field,
                          v |-> v]
    /\ triggerAutoSave
    /\ edits' = edits + 1
    /\ actions' = actions + 1
    /\ NoteTrigger
    /\ UNCHANGED nextId
    /\ UNCHANGED selectionVars
    /\ EditFrame

\* annotation menu, onChangeStyle -> painter.updateAnnotationStyle; the change
\* reaches the panel through onAnnotationChange
MenuChangeStyle ==
    /\ CanEdit
    /\ \E id \in Ids(store), v \in Values :
         /\ RecordOf(store, id).color # v
         /\ store' = UpdateRecord(store, id, "color", v)
         /\ panel' = updateAnnotation(panel, Partial(id, "color", v))
         /\ lastEvent' = [kind |-> "edit", op |-> "style", id |-> id, field |-> "color",
                          v |-> v]
    /\ edits' = edits + 1
    /\ actions' = actions + 1
    /\ UNCHANGED <<timerVars, nextId, hist>>
    /\ UNCHANGED selectionVars
    /\ EditFrame

\* a selected shape is dragged or resized: the store is updated on release,
\* onAnnotationChange / onAnnotationChanged are called
MoveResize ==
    /\ CanEdit
    /\ \E id \in Ids(store), v \in Values :
         /\ RecordOf(store, id).pos # v
         /\ store' = UpdateRecord(store, id, "pos", v)
         /\ panel' = updateAnnotation(panel, Partial(id, "pos", v))
         /\ lastEvent' = [kind |-> "edit", op |-> "move", id |-> id, field |-> "pos",
                          v |-> v]
    /\ edits' = edits + 1
    /\ actions' = actions + 1
    /\ UNCHANGED <<timerVars, nextId, hist>>
    /\ UNCHANGED selectionVars
    /\ EditFrame

\* ---------------------------------------------------------- text selection
\* onWebSelectionSelected(range): the range is saved (a null range clears the
\* saved one unless the chat popup is open) and the popbar is opened on it
onWebSelectionSelected(range) ==
    /\ lastSelectionRange' = (IF range # NoRange THEN range
                              ELSE IF ~isChatPopupOpen THEN NoRange
                              ELSE lastSelectionRange)
    /\ currentRange' = range
    /\ popbarShow' = (range # NoRange)

\* WebSelection, selectionchange listener: a caret reports a null range, a text
\* selection inside the viewer arms the mouseup listener
SelectionChange ==
    /\ Idle
    /\ pdfDocument # NoDoc
    /\ \E to \in {"caret", "text"} :
         /\ selection' = to
         /\ IF to = "caret"
            THEN /\ onWebSelectionSelected(NoRange)
                 /\ UNCHANGED isSelecting
            ELSE /\ isSelecting' = TRUE
                 /\ UNCHANGED <<lastSelectionRange, popbarVars>>
         /\ lastEvent' = [kind |-> "selection", to |-> to]
    /\ UNCHANGED <<chatVars, createVars, configVars, cacheVars, viewerVars, hostOpened,
                   guardVars, restoreVars, initialDataHash, store, panel, handlerVars, gets,
                   saves, timerVars, nextId, actions, edits, hist>>

\* WebSelection, mouseup / touchend listener: the selection's first range is
\* reported when a text selection was seen since the last one
MouseUp ==
    /\ Idle
    /\ isSelecting
    /\ isSelecting' = FALSE
    /\ IF selection # "none"
       THEN onWebSelectionSelected(selection)
       ELSE UNCHANGED <<lastSelectionRange, popbarVars>>
    /\ lastEvent' = [kind |-> "mouseup", range |-> selection]
    /\ UNCHANGED <<selection, chatVars, createVars, configVars, cacheVars, viewerVars,
                   hostOpened, guardVars, restoreVars, initialDataHash, store, panel,
                   handlerVars, gets, saves, timerVars, nextId, actions, edits, hist>>

\* a range that spans no text yields no highlight
isDegenerate_never(range) == FALSE

isDegenerate(range) == range # "text"

\* painter.highlightRange(range, highlight) -> WebSelection.highlight(range).
\* A range spanning text becomes a highlight record, reported through onStoreAdd
\* (with a pending creation token the chat transcript is written into it), and
\* the window selection is removed; a null or degenerate range adds nothing.
highlightRange(range, token, lastId) ==
    IF range = NoRange \/ isDegenerate(range)
    THEN /\ pendingCreationToken' = token
         /\ lastCreatedAnnotationId' = lastId
         /\ UNCHANGED <<store, panel, timerVars, nextId, edits, hist, selection>>
    ELSE LET annotation == [id |-> nextId, doc |-> pdfDocument,
                            text |-> IF token THEN 1 ELSE 0, comments |-> 0,
                            color |-> 0, pos |-> 0, date |-> Stamp]
         IN /\ store' = Append(store, annotation)
            /\ onStoreAdd(<<annotation>>, FALSE)
            /\ noteCreated(nextId, token, lastId, TRUE)
            /\ nextId' = nextId + 1
            /\ edits' = edits + 1
            /\ NoteTrigger
            /\ selection' = "none"

\* updateStore(id, {contentsObj: {text, displayText, selectedText}}): the
\* record's contentsObj carries a displayText from now on
transcriptApplied(id, applied) ==
    displayTexts' = (IF applied THEN displayTexts \cup {id} ELSE displayTexts)

\* selection popbar, a highlight button: onChange(annotation, currentRange)
PopbarHighlight ==
    /\ CanEdit
    /\ popbarShow
    /\ popbarShow' = FALSE
    /\ highlightRange(currentRange, pendingCreationToken, lastCreatedAnnotationId)
    /\ actions' = actions + 1
    /\ lastEvent' = [kind |-> "highlight", via |-> "popbar", range |-> currentRange,
                     saved |-> FALSE]
    /\ transcriptApplied(nextId, pendingCreationToken /\ Len(store') > Len(store))
    /\ UNCHANGED <<isSelecting, lastSelectionRange, currentRange, chatVars>>
    /\ UNCHANGED <<getUrl, postUrl, geom, compress, noteVars, sidebarVars, popupVars,
                   chatSession, cacheVars, viewerVars, hostOpened, guardVars, restoreVars,
                   initialDataHash, handlerVars, gets, saves>>

\* selection popbar, the send-to-AI button: with selected text and a live
\* selection the page text is requested
PopbarSendToAI ==
    /\ Idle
    /\ popbarShow
    /\ chatPc = "idle"
    /\ popbarShow' = FALSE
    /\ chatPc' = (IF currentRange = "text" /\ selection # "none" THEN "pageText" ELSE "idle")
    /\ lastEvent' = [kind |-> "sendtoai", range |-> currentRange]
    /\ UNCHANGED <<selection, isSelecting, lastSelectionRange, currentRange, isChatPopupOpen,
                   createVars, configVars, cacheVars, viewerVars, hostOpened, guardVars,
                   restoreVars, initialDataHash, store, panel, handlerVars, gets, saves,
                   timerVars, nextId, actions, edits, hist>>

\* after chatPopupRef.open(...): this._lastCreatedAnnotationId = null
lastCreatedAfterOpen_keep(opened) == lastCreatedAnnotationId

lastCreatedAfterOpen(opened) == IF opened THEN NoId ELSE lastCreatedAnnotationId

\* extractPageText settled: the chat popup opens and the next add-to-annotation
\* creates a new record; a rejection leaves the popup closed
ChatPageText ==
    /\ Idle
    /\ chatPc = "pageText"
    /\ chatPc' = "idle"
    /\ \E ok \in BOOLEAN :
         /\ isChatPopupOpen' = (isChatPopupOpen \/ ok)
         /\ lastCreatedAnnotationId' = lastCreatedAfterOpen(ok)
         /\ chatSession' = (IF ok THEN [start |-> nextId, first |-> NoAdd] ELSE chatSession)
         /\ lastEvent' = [kind |-> "chatopen", ok |-> ok]
    /\ UNCHANGED <<selection, isSelecting, lastSelectionRange, popbarVars,
                   pendingCreationToken, getUrl, postUrl, geom, compress, noteVars, sidebarVars,
                   popupVars, displayTexts, cacheVars, viewerVars, hostOpened,
                   guardVars, restoreVars, initialDataHash, store, panel, handlerVars, gets,
                   saves, timerVars, nextId, actions, edits, hist>>

\* chat popup, add to annotation.  The record created from this popup is
\* updated if there is one (only highlights are created while a token is
\* pending); otherwise a highlight is created on the saved range, or on the
\* live selection when no range is saved.
ChatAddToAnnotation ==
    /\ CanEdit
    /\ isChatPopupOpen
    /\ actions' = actions + 1
    /\ IF lastCreatedAnnotationId # NoId /\ lastCreatedAnnotationId \in Ids(store)
       THEN /\ store' = UpdateRecord(store, lastCreatedAnnotationId, "text", 1)
            /\ panel' = updateAnnotation(panel, Partial(lastCreatedAnnotationId, "text", 1))
            /\ edits' = edits + 1
            /\ lastEvent' = [kind |-> "chatupdate", id |-> lastCreatedAnnotationId]
            /\ transcriptApplied(lastCreatedAnnotationId, TRUE)
            /\ UNCHANGED <<selection, lastSelectionRange, createVars, timerVars, nextId, hist>>
       ELSE LET useSaved == lastSelectionRange # NoRange
                range == IF useSaved THEN lastSelectionRange
                         ELSE IF selection # "none" THEN selection ELSE NoRange
            IN /\ lastSelectionRange' = range
               /\ highlightRange(range, TRUE, NoId)
               /\ transcriptApplied(nextId, ~(range = NoRange \/ isDegenerate(range)))
               /\ lastEvent' = [kind |-> "highlight", via |-> "chat", range |-> range,
                                saved |-> useSaved]
    /\ chatSession' = (IF chatSession.first # NoAdd THEN chatSession
                       ELSE [chatSession EXCEPT
                                !.first = IF Len(store') > Len(store) THEN nextId ELSE NoId])
    /\ UNCHANGED <<isSelecting, popbarVars, chatVars>>
    /\ UNCHANGED <<getUrl, postUrl, geom, compress, noteVars, sidebarVars, popupVars, cacheVars, viewerVars, hostOpened,
                   guardVars, restoreVars, initialDataHash, handlerVars, gets, saves>>

\* chat popup, onClose
ChatClose ==
    /\ Idle
    /\ isChatPopupOpen
    /\ isChatPopupOpen' = FALSE
    /\ lastEvent' = [kind |-> "chatclose"]
    /\ UNCHANGED <<selection, isSelecting, lastSelectionRange, popbarVars, chatPc,
                   createVars, configVars, cacheVars, viewerVars, hostOpened, guardVars,
                   restoreVars, initialDataHash, store, panel, handlerVars, gets, saves,
                   timerVars, nextId, actions, edits, hist>>

NextSelection ==
    \/ UserOpen
    \/ DocumentLoaded
    \/ HandlerSave
    \/ HandlerGet
    \/ GetResponse
    \/ SelectionChange
    \/ MouseUp
    \/ PopbarHighlight
    \/ PopbarSendToAI
    \/ ChatPageText
    \/ ChatAddToAnnotation
    \/ ChatClose

\* a session of text selections: loads, the selection popbar and the chat popup
SpecSelection == Init /\ [][NextSelection]_vars

\* ------------------------------------------------------------------- saves
\* saveData up to its fetch (toolbar save button)
ManualSave ==
    /\ Idle
    /\ actions < MaxActions
    /\ actions' = actions + 1
    /\ LET dataToSave == getData_painter
       IN IF postUrl
          THEN /\ saves' = Append(saves, [kind |-> "manual", docId |-> DocIdOf(pdfDocument),
                                          body |-> dataToSave])
               /\ lastEvent' = [kind |-> "post", auto |-> FALSE]
          ELSE /\ UNCHANGED saves
               /\ lastEvent' = [kind |-> "nopost", auto |-> FALSE]
    /\ UNCHANGED <<selectionVars, configVars, cacheVars, viewerVars, hostOpened, guardVars,
                   restoreVars, initialDataHash, store, panel, handlerVars, gets, timerVars,
                   nextId, edits, hist>>

\* autoSaveNow up to its fetch
autoSaveNow_lastOnly ==
    LET all == getData_painter
        dataToSave == IF all = <<>> THEN <<>> ELSE <<all[Len(all)]>>
    IN IF postUrl
       THEN /\ saves' = Append(saves, [kind |-> "auto", docId |-> DocIdOf(pdfDocument),
                                       body |-> dataToSave])
            /\ hist' = [hist EXCEPT !.autoPosts = @ + 1]
       ELSE UNCHANGED <<saves, hist>>

autoSaveNow ==
    LET dataToSave == getData_painter
    IN IF postUrl
       THEN /\ saves' = Append(saves, [kind |-> "auto", docId |-> DocIdOf(pdfDocument),
                                       body |-> dataToSave])
            /\ hist' = [hist EXCEPT !.autoPosts = @ + 1]
       ELSE UNCHANGED <<saves, hist>>

\* the pending timeout expires and runs autoSaveNow
TimerFire ==
    /\ Idle
    /\ \E t \in timers :
         /\ t.rem = 0
         /\ timers' = timers \ {t}
    /\ autoSaveNow
    /\ lastEvent' = [kind |-> "autosave", since |-> sinceTrigger, posted |-> postUrl,
                     docId |-> DocIdOf(pdfDocument)]
    /\ UNCHANGED <<selectionVars, configVars, cacheVars, viewerVars, hostOpened, guardVars,
                   restoreVars, initialDataHash, store, panel, handlerVars, gets,
                   autoSaveTimer, timerSeq, sinceTrigger, nextId, actions, edits>>

\* saveData / autoSaveNow after a 2xx response: the snapshot that was sent
\* becomes the clean baseline
SaveSuccess_current(dataToSave) ==
    /\ initialDataHash' = hashArrayOfObjects(getData_painter)
    /\ hist' = [hist EXCEPT !.baseline = getData_painter]

SaveSuccess(dataToSave) ==
    /\ initialDataHash' = hashArrayOfObjects(dataToSave)
    /\ hist' = [hist EXCEPT !.baseline = dataToSave]

\* saveData / autoSaveNow in their catch block: the error is reported only
SaveFailure_rebase ==
    /\ initialDataHash' = hashArrayOfObjects(getData_painter)
    /\ hist' = [hist EXCEPT !.baseline = getData_painter]

SaveFailure == UNCHANGED <<initialDataHash, hist>>

\* what the catch block shows: saveData turns its modal into an error dialog
\* with the error's message, autoSaveNow only writes to the console
errorDialog_always(kind) == TRUE

errorDialog(kind) == kind = "manual"

\* a POST completes: on a 2xx the sent snapshot becomes the baseline, otherwise
\* the error is reported (dialog for a manual save, console for an autosave).
\* saves is kept in the order of issue: earlierPending tells that this response
\* arrived while a save issued before it was still in flight.
PostResponse ==
    /\ Idle
    /\ \E i \in 1..Len(saves), ok \in BOOLEAN :
         LET p == saves[i]
         IN /\ saves' = RemoveAt(saves, i)
            /\ IF ok THEN SaveSuccess(p.body) ELSE SaveFailure
            /\ lastEvent' = [kind |-> "saved", ok |-> ok, auto |-> (p.kind = "auto"),
                             body |-> p.body, dialog |-> (~ok /\ errorDialog(p.kind)),
                             earlierPending |-> (i > 1)]
    /\ UNCHANGED <<selectionVars, configVars, cacheVars, viewerVars, hostOpened, guardVars,
                   restoreVars, store, panel, handlerVars, gets, timerVars, nextId,
                   actions, edits>>

\* one unit of time passes; a due timeout runs before time moves on
Tick ==
    /\ Idle
    /\ ~TimerDue
    /\ timers # {} \/ sinceTrigger < autoSaveDelay
    /\ timers' = {[t EXCEPT !.rem = @ - 1] : t \in timers}
    /\ sinceTrigger' = IF sinceTrigger < autoSaveDelay THEN sinceTrigger + 1 ELSE sinceTrigger
    /\ lastEvent' = [kind |-> "tick"]
    /\ UNCHANGED <<selectionVars, configVars, cacheVars, viewerVars, hostOpened, guardVars,
                   restoreVars, initialDataHash, store, panel, handlerVars, gets, saves,
                   autoSaveTimer, timerSeq, nextId, actions, edits, hist>>

Next ==
    \/ UserOpen
    \/ DocumentLoaded
    \/ HandlerSave
    \/ HandlerGet
    \/ GetResponse
    \/ AddAnnotation
    \/ MenuDelete
    \/ PanelDelete
    \/ PanelUpdate
    \/ MenuChangeStyle
    \/ MoveResize
    \/ ManualSave
    \/ TimerFire
    \/ PostResponse
    \/ Tick

\* a session without a saved DocumentInfo: loads, edits, saves and autosave
Spec == Init /\ [][Next]_vars

\* ===================================================================== C1
\* C1 (as claimed): when localStorage names TargetDoc and the blob store holds its
\* bytes at startup, the session never writes a DocumentInfo or blob entry for
\* the host's default document, whenever that document's load event arrives.
C1_DefaultNeverPersisted == hist.cachedAtStart => ~hist.defaultPersisted

\* ===================================================================== C2
\* C2 (as claimed): whenever a document is open and no handler is mid-turn, the
\* store and the comment panel hold only records of that document, and a GET
\* payload that is applied (and hashed into the baseline) is the payload of the
\* open document.
C2_NoCrossDocumentLeakage ==
    (Idle /\ pdfDocument # NoDoc) =>
        /\ \A i \in 1..Len(store) : store[i].doc = pdfDocument
        /\ \A i \in 1..Len(panel) : panel[i].doc = pdfDocument
        /\ (lastEvent.kind = "loaded" /\ lastEvent.request /\ lastEvent.ok
               => lastEvent.fp = pdfDocument)

\* ===================================================================== C3
\* C3: in the handling of one documentloaded event the store and the comment
\* panel are already empty at every point before the GET, and still empty in
\* the state in which the GET has just been issued; no payload is applied before.
C3_ResetBeforeGet ==
    /\ (hpc \in {"reset", "saved"} => store = <<>> /\ panel = <<>>)
    /\ (lastEvent.kind = "get" =>
           /\ store = <<>> /\ panel = <<>>
           /\ gets # <<>> /\ gets[Len(gets)].fp = pdfDocument)

\* a second document's GET has just been issued after an annotation was drawn
C3_Witness == lastEvent.kind = "get" /\ actions = 3 /\ nextId = 3

\* ===================================================================== C4
\* C4: at most one autosave timer is pending; a timer fires exactly one delay
\* after the last triggering mutation; with a POST url the number of autosave
\* POSTs is the number of triggering mutations that were not followed by another
\* one within the delay (those whose timer is still pending not yet counted).
C4_Debounce ==
    /\ Cardinality(timers) <= 1
    /\ (lastEvent.kind = "autosave" => lastEvent.since = autoSaveDelay)
    /\ (postUrl => hist.autoPosts = hist.triggers - hist.close - Cardinality(timers))
    /\ (~postUrl => hist.autoPosts = 0)

\* two mutations in one burst have produced exactly one POST
C4_Witness ==
    /\ hist.triggers = 2 /\ hist.close = 1 /\ hist.autoPosts = 1
    /\ timers = {} /\ lastEvent.kind = "autosave"

\* two mutations more than one delay apart have produced two POSTs
C4_WitnessSpaced == hist.triggers = 2 /\ hist.close = 0 /\ hist.autoPosts = 2

\* ===================================================================== C5
\* C5 (as claimed): after every user mutation of the collection (add, delete,
\* comment edit, style change, move / resize) an autosave timer is pending.
C5_EveryMutationSchedules ==
    lastEvent.kind = "edit" => \E t \in timers : t.id = autoSaveTimer

\* ===================================================================== C6
\* C6: as long as the user has made no edit, loading documents (payload records
\* reported with isOriginal = true) leaves no autosave timer scheduled and no
\* autosave POST issued.
C6_LoadNeverSchedules ==
    edits = 0 =>
        /\ timers = {} /\ autoSaveTimer = NoTimer
        /\ hist.autoPosts = 0
        /\ \A i \in 1..Len(saves) : saves[i].kind = "manual"

\* a payload of one record has just been loaded, no edit so far
C6_Witness ==
    /\ edits = 0 /\ lastEvent.kind = "loaded" /\ lastEvent.request
    /\ Len(store) = 1 /\ Len(panel) >= 1

\* ===================================================================== C7
\* C7 (as claimed): right after a load completes and right after a successful
\* manual save or autosave, hasUnsavedChanges() is false.
C7_CleanAfterLoadOrSave ==
    \/ lastEvent.kind = "loaded"
    \/ (lastEvent.kind = "saved" /\ lastEvent.ok)
    => ~hasUnsavedChanges

\* C7 (amended): right after a load completes hasUnsavedChanges() is false;
\* right after a successful save the baseline is the hash of the snapshot that
\* was sent, so hasUnsavedChanges() is false exactly when the collection still
\* equals that snapshot.
C7_CleanAfterLoadOrSnapshot ==
    /\ (lastEvent.kind = "loaded" => ~hasUnsavedChanges)
    /\ (lastEvent.kind = "saved" /\ lastEvent.ok =>
           /\ initialDataHash = hashArrayOfObjects(lastEvent.body)
           /\ (hasUnsavedChanges <=> getData_painter # lastEvent.body))

\* a save has just succeeded while the collection had moved on from its snapshot
C7_Witness ==
    lastEvent.kind = "saved" /\ lastEvent.ok /\ getData_painter # lastEvent.body

\* ===================================================================== C8
\* C8 (as claimed): once a baseline exists, hasUnsavedChanges() is true after
\* every add / update / delete.
C8_DirtyAfterEveryEdit ==
    (lastEvent.kind = "edit" /\ initialDataHash # NoHash) => hasUnsavedChanges

\* C8 (amended): once a baseline exists, after every add / update / delete
\* hasUnsavedChanges() is true exactly when the collection differs from the
\* collection of the last completed load or successful save.
C8_DirtyIffDiffers ==
    (lastEvent.kind = "edit" /\ initialDataHash # NoHash) =>
        (hasUnsavedChanges <=> getData_painter # hist.baseline)

\* an edit has just brought the collection back to the baseline collection
C8_Witness ==
    /\ lastEvent.kind = "edit" /\ initialDataHash # NoHash
    /\ edits >= 2 /\ getData_painter = hist.baseline

\* ===================================================================== C9
\* C9: a POST that fails (manual or automatic) changes neither the collection
\* nor the baseline hash, so the dirty state is as before; and every autosave
\* firing with a POST url sends the whole current collection.
C9_FailedSaveKeepsState ==
    [][ /\ (lastEvent'.kind = "saved" /\ ~lastEvent'.ok) =>
              /\ store' = store
              /\ initialDataHash' = initialDataHash
              /\ hasUnsavedChanges' = hasUnsavedChanges
        /\ (lastEvent'.kind = "autosave" /\ postUrl) =>
              /\ Len(saves') = Len(saves) + 1
              /\ saves'[Len(saves')].body = store ]_vars

\* a save has just failed and the edits are still reported as unsaved
C9_Witness ==
    /\ lastEvent.kind = "saved" /\ ~lastEvent.ok
    /\ edits >= 1 /\ hasUnsavedChanges /\ initialDataHash # NoHash

\* ==================================================================== C10
\* C10: with a GET url, when the load of document F completes after a 2xx the
\* store is exactly the payload served for F and the baseline is its hash (the
\* empty payload after a failed GET); without a GET url no request is ever
\* issued and the store never holds a record that came from the server.
C10_LoadAppliesPayload ==
    /\ (lastEvent.kind = "loaded" =>
           /\ lastEvent.request = getUrl
           /\ store = (IF lastEvent.request /\ lastEvent.ok
                       THEN RemotePayload(lastEvent.fp) ELSE <<>>)
           /\ initialDataHash = hashArrayOfObjects(store))
    /\ (~getUrl => gets = <<>> /\ \A i \in 1..Len(store) : store[i].id # RemoteRecord(store[i].doc).id)

\* the payload of one record with id 1 has just been applied
C10_Witness ==
    /\ lastEvent.kind = "loaded" /\ lastEvent.request /\ lastEvent.ok
    /\ Len(store) = 1 /\ store[1].id = 1 /\ store[1].doc = lastEvent.fp

\* ==================================================================== C11
\* C11: when the annotation GET fails the handler still runs to its end: the
\* failure is shown in a dialog, the store is empty, the baseline is the hash of
\* the empty collection, and the engine is ready for the next event.
C11_FailedGetLoadsEmpty ==
    (lastEvent.kind = "loaded" /\ lastEvent.request /\ ~lastEvent.ok) =>
        /\ lastEvent.dialog
        /\ store = <<>>
        /\ initialDataHash = hashArrayOfObjects(<<>>)
        /\ ~hasUnsavedChanges
        /\ Idle

\* a GET has just failed after the user had already drawn an annotation
C11_Witness ==
    /\ lastEvent.kind = "loaded" /\ lastEvent.request /\ ~lastEvent.ok
    /\ nextId > 2 /\ panel # <<>>

\* ==================================================================== C12
\* C12 (as claimed): every GET carries the fingerprint of the document whose
\* load issued it, and no POST in flight carries, under the docId of one
\* document, a record that belongs to another document.
C12_RequestsKeyedByOpenDocument ==
    /\ \A i \in 1..Len(gets) : gets[i].docId = gets[i].fp
    /\ \A i \in 1..Len(saves) :
          saves[i].docId \in Docs =>
              \A k \in 1..Len(saves[i].body) : saves[i].body[k].doc = saves[i].docId

\* ==================================================================== C13
\* C13: when the autosave timer fires with a POST url, the POST that is issued
\* carries the whole collection as it is at that moment.
C13_AutosaveSendsCurrentCollection ==
    (lastEvent.kind = "autosave" /\ postUrl) =>
        /\ saves # <<>>
        /\ saves[Len(saves)].kind = "auto"
        /\ saves[Len(saves)].body = getData_painter

\* the timer of a burst of two edits has just fired with both edits in the body
C13_Witness ==
    /\ lastEvent.kind = "autosave" /\ postUrl
    /\ hist.triggers = 2 /\ hist.close = 1
    /\ Len(saves[Len(saves)].body) >= 2

\* ==================================================================== C14
\* C14 (as claimed): every documentloaded handled before the restore's open
\* meets the guard set for the target, and the cached bytes are fetched only
\* after the destroy / close of the load in flight has settled.
C14_DestroyThenFetchThenOpen ==
    /\ (lastEvent.kind = "documentloaded" /\ ~hist.targetLoaded) =>
           (isRestoring /\ restoringFingerprint = TargetDoc)
    /\ \A i \in 1..Len(hist.restoreLog) :
          hist.restoreLog[i] = "fetch" =>
              \E j \in 1..(i - 1) : hist.restoreLog[j] \in {"closed", "closeFailed"}

\* C14 (amended): every documentloaded handled before the target has loaded
\* meets the guard set for the target; the restore first fetches the cached
\* bytes, then destroys / closes the load in flight, then opens the viewer.
C14_FetchThenDestroyThenOpen ==
    /\ (lastEvent.kind = "documentloaded" /\ ~hist.targetLoaded) =>
           (isRestoring /\ restoringFingerprint = TargetDoc)
    /\ \A i \in 1..Len(hist.restoreLog) :
          /\ hist.restoreLog[i] # "fetch" => hist.restoreLog[1] = "fetch" /\ i > 1
          /\ hist.restoreLog[i] = "open" =>
                /\ i = Len(hist.restoreLog)
                /\ hist.restoreLog[i - 1] \in {"closed", "closeFailed"}

\* the restore has fetched the bytes, destroyed the default load, closed, opened
C14_Witness ==
    /\ restoreFrom = "data"
    /\ hist.restoreLog = <<"fetch", "destroy", "destroyed", "close", "closed", "open">>

\* ==================================================================== C15
\* C15: the guard goes from set to released only in the step that completes the
\* load of the document named by restoringFingerprint, and while the guard is set
\* restoringFingerprint names a document.
C15_GuardReleasedOnlyByTarget ==
    /\ [][(isRestoring /\ ~isRestoring') =>
              (lastEvent'.kind = "loaded" /\ lastEvent'.fp = restoringFingerprint)]_vars
    /\ [](isRestoring => restoringFingerprint # NoDoc)

\* the target's load has just released the guard in a session in which the host
\* also opened its default document
C15_Witness ==
    /\ ~isRestoring /\ lastEvent.kind = "loaded" /\ lastEvent.fp = TargetDoc
    /\ hostOpened

\* ==================================================================== C16
\* C16: when the blob store yields no bytes for the target (none cached, or the
\* read failed), the restore goes on with the saved URL exactly when that URL is
\* non-empty and not a blob: URL, and then opens the viewer with it; otherwise
\* it ends at once with no open, no dialog and the viewer untouched.
C16_UrlFallbackOrSilentAbandon ==
    /\ (lastEvent.kind = "restore" /\ lastEvent.step = "idb") =>
          /\ ~lastEvent.readOk => ~lastEvent.found
          /\ ~lastEvent.found =>
                /\ ~lastEvent.dialog
                /\ IF restoreInfo.url \notin {"", "blob"}
                   THEN restoreFrom = "url" /\ restorePc \in {"destroying", "closing"}
                   ELSE /\ restoreFrom = "none" /\ restorePc = "done"
                        /\ ~taskDestroyed
    /\ restoreFrom = "none" =>
          \A i \in 1..Len(hist.restoreLog) : hist.restoreLog[i] = "fetch"
    /\ (lastEvent.kind = "restore" /\ lastEvent.step = "open" /\ restoreFrom = "url") =>
          viewerUrl = restoreInfo.url /\ pdfLoadingTask = restoreInfo.fingerprint

\* the read of existing bytes failed and the viewer was opened with the saved URL
C16_Witness ==
    /\ lastEvent.kind = "restore" /\ lastEvent.step = "open"
    /\ restoreFrom = "url" /\ hist.cachedAtStart

\* the restore was abandoned because the saved URL is a blob: URL
C16_WitnessAbandoned ==
    /\ restorePc = "done" /\ restoreFrom = "none" /\ restoreInfo.url = "blob"
    /\ hist.restoreLog = <<"fetch">>

\* ==================================================================== C17
\* C17: the restore's open is issued only after the close has settled and, when
\* a destroy was called, after that destroy has settled; whether they succeeded
\* or failed, a restore that went past the fetch ends with the open.
C17_OpenAfterDestroyAndClose ==
    /\ \A i \in 1..Len(hist.restoreLog) :
          hist.restoreLog[i] = "open" =>
              /\ \E j \in 1..(i - 1) : hist.restoreLog[j] \in {"closed", "closeFailed"}
              /\ \A k \in 1..(i - 1) :
                    hist.restoreLog[k] = "destroy" =>
                        \E j \in (k + 1)..(i - 1) :
                            hist.restoreLog[j] \in {"destroyed", "destroyFailed"}
    /\ (restorePc = "done" /\ restoreFrom # "none") =>
          hist.restoreLog[Len(hist.restoreLog)] = "open"

\* destroy and close both failed and the open was issued all the same
C17_Witness ==
    hist.restoreLog = <<"fetch", "destroy", "destroyFailed", "close", "closeFailed", "open">>

\* ==================================================================== C18
\* C18: once the handler of a load that is not a suppressed non-target load has
\* passed its save step, so before its GET is issued and ever after, localStorage
\* names the most recent such document (hist.lastKept); right after the save
\* step the entry holds that document's fingerprint and the viewer's URL, and a
\* suppressed load leaves the entry naming the restore target.
C18_DocumentInfoNamesLastLoad ==
    /\ (hpc # "reset" /\ hist.lastKept # NoDoc) => lsInfo.fingerprint = hist.lastKept
    /\ (hpc = "saved" /\ hist.lastKept = pdfDocument) =>
          lsInfo = [fingerprint |-> pdfDocument, url |-> viewerUrl]
    /\ (hpc = "saved" /\ hist.lastKept # pdfDocument) =>
          /\ isRestoring /\ restoringFingerprint # pdfDocument
          /\ lsInfo.fingerprint = restoringFingerprint
    /\ (lastEvent.kind = "get" /\ hist.lastKept = pdfDocument) =>
          lsInfo.fingerprint = pdfDocument

\* after the restore, the default document's load has replaced the entry and its
\* GET has just been issued
C18_Witness ==
    /\ lastEvent.kind = "get" /\ pdfDocument = DefaultDoc
    /\ lsInfo.fingerprint = DefaultDoc /\ restoreInfo.fingerprint = TargetDoc

C20_UpgradeRecreatesStore ==
    /\ (lastEvent.kind = "blob" /\ lastEvent.opened) =>
          idbSchema = "current"
    /\ (lastEvent.kind = "restore" /\ lastEvent.step = "idb" /\ lastEvent.opened) =>
          /\ idbSchema = "current"
          /\ hist.schemaAtStart # "current" => (~lastEvent.found /\ blobs = [d \in Docs |-> NoDoc])
    /\ idbSchema \in {hist.schemaAtStart, "current"}

\* a write has gone through on a database that started with an older store
C20_Witness ==
    /\ hist.schemaAtStart = "legacy" /\ idbSchema = "current"
    /\ lastEvent.kind = "blob" /\ lastEvent.ok /\ blobs[lastEvent.fp] # NoDoc

\* the read path has upgraded a database that started with an older store
C20_WitnessRead ==
    /\ hist.schemaAtStart = "legacy" /\ idbSchema = "current"
    /\ lastEvent.kind = "restore" /\ lastEvent.step = "idb"

C21_WitnessManual ==
    /\ lastEvent.kind = "saved" /\ ~lastEvent.ok /\ ~lastEvent.auto /\ lastEvent.dialog
    /\ store # <<>>

\* ==================================================================== C22
\* C22: an update that carries one field changes, in the store and in the
\* comment panel alike, only that field and the date of the record it names:
\* every other field of that record and every other record stay as they were,
\* and the record's date becomes the time of the update.
C22_UpdateKeepsOtherFields ==
    [][
        (lastEvent'.kind = "edit" /\ lastEvent'.op \in {"panelupdate", "style", "move"}) =>
            /\ Len(store') = Len(store) /\ Len(panel') = Len(panel)
            /\ \A s \in {<<store, store'>>, <<panel, panel'>>} :
                 \A i \in 1..Len(s[1]) :
                    IF s[1][i].id = lastEvent'.id
                    THEN /\ \A f \in {"id", "doc", "text", "comments", "color", "pos"} \ {lastEvent'.field} :
                              s[2][i][f] = s[1][i][f]
                         /\ s[2][i][lastEvent'.field] = lastEvent'.v
                         /\ s[2][i].date = actions'
                    ELSE s[2][i] = s[1][i]
    ]_vars

\* the text of a record with a changed colour has just been changed from the
\* comment panel
C22_Witness ==
    /\ lastEvent.kind = "edit" /\ lastEvent.op = "panelupdate" /\ lastEvent.field = "text"
    /\ \E i \in 1..Len(panel) :
         panel[i].id = lastEvent.id /\ panel[i].text = 1 /\ panel[i].color = 1
    /\ \E i \in 1..Len(store) :
         store[i].id = lastEvent.id /\ store[i].text = 1 /\ store[i].color = 1

\* the same for a record that has a reply
C22_WitnessComments ==
    /\ lastEvent.kind = "edit" /\ lastEvent.op = "panelupdate" /\ lastEvent.field = "text"
    /\ \E i \in 1..Len(panel) :
         panel[i].id = lastEvent.id /\ panel[i].text = 1 /\ panel[i].comments = 1
    /\ \E i \in 1..Len(store) :
         store[i].id = lastEvent.id /\ store[i].text = 1 /\ store[i].comments = 1

\* ==================================================================== C23
\* C23 (as claimed): right after a delete from the annotation menu or from the
\* comment panel neither the store nor the panel holds a record with that id,
\* and at every moment the panel lists exactly the ids of the store's records,
\* each of them once.
C23_PanelMirrorsStore ==
    /\ (lastEvent.kind = "edit" /\ lastEvent.op \in {"menudelete", "paneldelete"}) =>
          lastEvent.id \notin (Ids(store) \cup Ids(panel))
    /\ Ids(panel) = Ids(store)
    /\ Len(panel) = Cardinality(Ids(panel))

C24_WitnessSaved ==
    /\ lastEvent.kind = "highlight" /\ lastEvent.via = "chat"
    /\ lastEvent.saved /\ lastEvent.range = "caret"

\* the chat popup's add-to-annotation fell back to a collapsed live selection
C24_WitnessLive ==
    /\ lastEvent.kind = "highlight" /\ lastEvent.via = "chat"
    /\ ~lastEvent.saved /\ lastEvent.range = "caret"

C26_TimerStaysWithItsDocument ==
    (lastEvent.kind = "autosave" /\ lastEvent.posted) =>
        /\ lastEvent.docId = DocIdOf(hist.timerDoc)
        /\ \A i \in 1..Len(gets) : gets[i].fp # pdfDocument

\* C27: once restoreLastDocument has returned without opening anything (no cached
\* bytes, and the saved URL is empty or a blob: URL), the handler of a document
\* the user opens afterwards calls saveCurrentDocument, so that document
\* becomes the current DocumentInfo and gets its blob written.
C27_GuardNotStuckAfterAbandonedRestore ==
    (/\ lastEvent.kind = "handlersave"
     /\ loadOrigin = "user"
     /\ restorePc = "done" /\ restoreFrom = "none") =>
        /\ lastEvent.saved
        /\ lsInfo.fingerprint = pdfDocument

\* ==================================================================== C28
\* C28: hasUnsavedChanges() is true only after some add, update or delete: as
\* long as the user has made no edit it is false, before any document has been
\* loaded and at every point of a document load.
C28_DirtyOnlyAfterEdit ==
    edits = 0 => ~hasUnsavedChanges

\* the same, for the states in which a first load has already set a baseline
C28_DirtyOnlyAfterEditOnceLoaded ==
    (edits = 0 /\ initialDataHash # NoHash) => ~hasUnsavedChanges

\* ==================================================================== C29
\* C29: two saves overlap and the response of the later-issued one arrives
\* first; when the response of the earlier-issued one then arrives, both having
\* succeeded, the baseline is the hash of the later-issued snapshot, so
\* hasUnsavedChanges() is false if the collection still equals that snapshot.
C29_LaterSnapshotIsBaseline ==
    [][
        (/\ lastEvent.kind = "saved" /\ lastEvent.ok /\ lastEvent.earlierPending
         /\ Len(saves) = 1
         /\ lastEvent'.kind = "saved" /\ lastEvent'.ok) =>
            /\ initialDataHash' = hashArrayOfObjects(lastEvent.body)
            /\ (getData_painter' = lastEvent.body => ~hasUnsavedChanges')
    ]_vars

\* ==================================================================== C30
\* C30: persisting the bytes is best-effort.  The handler issues the GET in the
\* turn in which saveCurrentDocument was started, whatever becomes of the blob
\* write; the DocumentInfo is written in that turn, before the bytes are
\* asked for; the payload of a completed GET is applied whether or not a blob
\* write is pending or has failed; and a blob write that settles, in whatever
\* way, changes nothing but the blob database and raises no unhandled error.
C30_BlobWriteIsBestEffort ==
    [][
        /\ (hpc = "reset" /\ (~isRestoring \/ htarget) =>
               lsInfo' = [fingerprint |-> pdfDocument, url |-> viewerUrl])
        /\ (hpc = "saved" =>
               /\ hpc' = "idle"
               /\ IF getUrl
                  THEN gets' = Append(gets, [docId |-> DocIdOf(pdfDocument), fp |-> hfp,
                                             target |-> htarget])
                  ELSE store' = <<>> /\ initialDataHash' = hashArrayOfObjects(<<>>))
        /\ (lastEvent'.kind = "loaded" /\ (gets' # gets \/ hpc' # hpc) =>
               /\ store' = lastEvent'.data
               /\ initialDataHash' = hashArrayOfObjects(lastEvent'.data))
        /\ (blobWrites' # blobWrites /\ hpc = "idle" =>
               /\ ~lastEvent'.unhandled
               /\ UNCHANGED <<lsInfo, gets, store, panel, initialDataHash, handlerVars,
                              viewerVars, guardVars>>)
    ]_vars

\* a GET's payload has just been applied while the blob write of that document
\* has not settled
C30_Witness ==
    /\ lastEvent.kind = "loaded" /\ lastEvent.request /\ lastEvent.ok
    /\ \E w \in blobWrites : w.fingerprint = lastEvent.fp
    /\ lsInfo.fingerprint = lastEvent.fp

\* a blob write has just failed while the GET of its document is in flight
C30_WitnessFailed ==
    /\ lastEvent.kind = "blob" /\ ~lastEvent.ok
    /\ \E i \in 1..Len(gets) : gets[i].fp = lastEvent.fp
    /\ lsInfo.fingerprint = lastEvent.fp

\* ==================================================================== C31
\* C31: with the note tool, pointer-down and pointer-move change nothing; a
\* pointer-up on the stage puts exactly one new shape group on the layer and
\* commits exactly one record, under the group's id, in the same turn; a
\* pointer-up on anything else creates no shape and no record.
C31_NoteCommitsOnStagePointerUp ==
    [][
        /\ (lastEvent'.kind \in {"notedown", "notemove"} =>
               UNCHANGED <<noteVars, store, panel, timerVars, createVars, nextId, edits>>)
        /\ (lastEvent'.kind = "noteup" /\ lastEvent'.target = "stage" =>
               /\ lastEvent'.committed
               /\ lastEvent'.id \notin konvaGroups
               /\ konvaGroups' = konvaGroups \cup {lastEvent'.id}
               /\ Len(store') = Len(store) + 1
               /\ SubSeq(store', 1, Len(store)) = store
               /\ store'[Len(store')].id = lastEvent'.id
               /\ lastEvent'.id \notin Ids(store))
        /\ (lastEvent'.kind = "noteup" /\ lastEvent'.target # "stage" =>
               /\ ~lastEvent'.committed
               /\ UNCHANGED <<noteVars, store, panel, timerVars, nextId, edits>>)
    ]_vars

\* a pointer-up on the stage has just committed a second note
C31_Witness ==
    /\ lastEvent.kind = "noteup" /\ lastEvent.committed
    /\ Cardinality(konvaGroups) = 2
    /\ lastEvent.id \in Ids(store)

\* a pointer-up on a shape, while one note exists
C31_WitnessOffStage ==
    /\ lastEvent.kind = "noteup" /\ lastEvent.target = "shape"
    /\ Cardinality(konvaGroups) = 1

\* ==================================================================== C32
\* C32: a note pointer-up on the stage for which neither the stage pointer
\* position nor the relative pointer position is available completes, and the
\* note it commits is anchored at the default anchor (50, 50).
C32_NoteFallsBackToDefaultAnchor ==
    (/\ lastEvent.kind = "noteup" /\ lastEvent.target = "stage"
     /\ lastEvent.pointer = NoPos /\ lastEvent.relative = NoPos) =>
        /\ lastEvent.committed
        /\ \E i \in 1..Len(store) :
              store[i].id = lastEvent.id /\ store[i].pos = DefaultAnchor

\* a note has just been committed without any pointer position
C32_Witness ==
    /\ lastEvent.kind = "noteup" /\ lastEvent.committed
    /\ lastEvent.pointer = NoPos /\ lastEvent.relative = NoPos
    /\ store # <<>> /\ store[Len(store)].pos = DefaultAnchor

\* ==================================================================== C33
\* C33: the pending transcript and creation token are consumed only by the
\* add-to-annotation action that set them: a record created by any other user
\* action neither receives the transcript nor becomes _lastCreatedAnnotationId.
C33_TranscriptOnlyIntoOwnHighlight ==
    [][
        (Len(store') > Len(store) /\ lastEvent'.kind # "loaded") =>
            LET created == store'[Len(store')]
            IN (created.text = 1 \/ lastCreatedAnnotationId' = created.id) =>
                   (lastEvent'.kind = "highlight" /\ lastEvent'.via = "chat")
    ]_vars

\* ==================================================================== C34
\* an add-to-annotation of the chat popup has just run
ChatAddStep == lastEvent'.kind = "chatupdate" \/
               (lastEvent'.kind = "highlight" /\ lastEvent'.via = "chat" /\ actions' # actions)

C34_WitnessNewSession ==
    /\ lastEvent.kind = "highlight" /\ lastEvent.via = "chat" /\ lastEvent.range = "text"
    /\ chatSession.first = lastCreatedAnnotationId
    /\ \E i \in 1..Len(store) : store[i].text = 1 /\ store[i].id < chatSession.start

\* ==================================================================== C35
\* C35: while the chat popup is open no step resets lastSelectionRange to null,
\* so an add-to-annotation that has to create its highlight finds the saved
\* range of the selection the popup was opened on.
C35_SavedRangeSurvivesWhilePopupOpen ==
    [][
        /\ (isChatPopupOpen /\ lastSelectionRange # NoRange => lastSelectionRange' # NoRange)
        /\ (ChatAddStep /\ lastEvent'.kind = "highlight" =>
               lastEvent'.saved /\ lastSelectionRange # NoRange)
    ]_vars

\* the first half alone: a cleared selection leaves the saved range in place
\* while the popup is open
C35_ClearedSelectionKeepsRangeWhileOpen ==
    [][
        isChatPopupOpen /\ lastSelectionRange # NoRange => lastSelectionRange' # NoRange
    ]_vars

\* ==================================================================== C36
\* C36: after initialisation at least one of the two 'hidden' body classes is
\* present, so the comment sidebar and the chat sidebar are never both
\* visible; a step that shows one of them leaves the other hidden.
C36_SidebarsNeverBothVisible ==
    /\ bodyClasses.commentHidden \/ bodyClasses.chatHidden
    /\ (lastEvent.kind = "sidebar" /\ lastEvent.open =>
           IF lastEvent.which = "chat"
           THEN ~bodyClasses.chatHidden /\ bodyClasses.commentHidden
           ELSE ~bodyClasses.commentHidden /\ bodyClasses.chatHidden)

\* the chat sidebar has just been opened while the comment sidebar was showing
C36_Witness ==
    /\ lastEvent.kind = "sidebar" /\ lastEvent.which = "chat"
    /\ lastEvent.open /\ lastEvent.otherWasOpen

\* the annotation menu has just opened the comment sidebar over the chat sidebar
C36_WitnessMenu ==
    /\ lastEvent.kind = "sidebar" /\ lastEvent.which = "menu" /\ lastEvent.otherWasOpen

\* ==================================================================== C37
\* C37: the message list of the chat popup, and so the transcript written to
\* an annotation, holds only messages created and filled in the session that
\* began with the latest open().
C37_MessagesOfOneSession ==
    /\ \A i \in 1..Len(messages) : messages[i].session = chatEpoch
    /\ \A i \in 1..Len(transcript) : transcript[i].content = chatEpoch

\* ==================================================================== C39
\* the panel's record without the reply: { ...item, comments: updatedComments }
withoutReply(s, id) ==
    [i \in 1..Len(s) |-> IF s[i].id = id THEN [s[i] EXCEPT !.comments = 0] ELSE s[i]]

\* comment panel, deleteReply, on a record that has a reply (comments = 1).
\* updatedAnnotation is assigned inside the updater handed to setAnnotations
\* and read right after the call. React runs the updater during the call only
\* when the component has no update pending from an earlier render (eager
\* state); otherwise it queues the updater and runs it in the next render,
\* after deleteReply has returned. Both are outcomes of the same build.
PanelDeleteReply ==
    /\ CanEdit
    /\ \E id \in Ids(panel), eager \in BOOLEAN :
         /\ RecordOf(panel, id).comments = 1
         /\ lastEvent' = [kind |-> "edit", op |-> "deletereply", id |-> id,
                          onUpdate |-> IF eager THEN 1 ELSE 0]
         /\ IF eager
            THEN \* if (updatedAnnotation) props.onUpdate(updatedAnnotation)
                 /\ store' = UpdateRecord(store, id, "comments", 0)
                 /\ panel' = updateAnnotation(withoutReply(panel, id),
                                              Partial(id, "comments", 0))
                 /\ triggerAutoSave
                 /\ edits' = edits + 1
                 /\ NoteTrigger
            ELSE \* updatedAnnotation is still null: onUpdate is skipped
                 /\ panel' = withoutReply(panel, id)
                 /\ UNCHANGED <<store, timerVars, edits, hist>>
    /\ actions' = actions + 1
    /\ UNCHANGED nextId
    /\ UNCHANGED selectionVars
    /\ EditFrame

NextReply ==
    \/ UserOpen
    \/ DocumentLoaded
    \/ HandlerSave
    \/ HandlerGet
    \/ GetResponse
    \/ AddAnnotation
    \/ PanelUpdate
    \/ PanelDeleteReply
    \/ TimerFire
    \/ PostResponse
    \/ Tick

\* a session in which replies are added to and deleted from annotations
SpecReply == Init /\ [][NextReply]_vars

\* C39: deleting a reply removes it from the panel's record and reports the
\* updated record through onUpdate exactly once: the store's record no longer
\* has the reply and an autosave timer is pending.
C39_DeleteReplyReachesStore ==
    [][
        (lastEvent'.kind = "edit" /\ lastEvent'.op = "deletereply") =>
            /\ RecordOf(panel', lastEvent'.id).comments = 0
            /\ lastEvent'.onUpdate = 1
            /\ RecordOf(store', lastEvent'.id).comments = 0
            /\ autoSaveTimer' # NoTimer
            /\ \E t \in timers' : t.id = autoSaveTimer' /\ t.rem = autoSaveDelay
    ]_vars

\* the part that holds in both outcomes: the reply leaves the panel's record
C39_DeleteReplyLeavesPanel ==
    [][
        (lastEvent'.kind = "edit" /\ lastEvent'.op = "deletereply") =>
            RecordOf(panel', lastEvent'.id).comments = 0
    ]_vars

\* a reply was deleted and its deletion reported
C39_WitnessReported ==
    lastEvent.kind = "edit" /\ lastEvent.op = "deletereply" /\ lastEvent.onUpdate = 1

\* ==================================================================== C38
InitPages ==
    /\ InitCommon
    /\ geom = NoGeom
    /\ lsInfo = NoInfo
    /\ blobs = [d \in Docs |-> NoDoc]
    /\ idbSchema = "current"
    /\ isRestoring = FALSE /\ restoringFingerprint = NoDoc
    /\ restorePc = "done" /\ restoreInfo = NoInfo /\ restoreFrom = "none"
    /\ hist = [defaultPersisted |-> FALSE, targetLoaded |-> FALSE, cachedAtStart |-> FALSE,
               schemaAtStart |-> "current",
               triggers |-> 0, close |-> 0, autoPosts |-> 0, baseline |-> <<>>, restoreLog |-> <<>>,
               lastKept |-> NoDoc, timerDoc |-> NoDoc]
    /\ SidebarsAfterInit(FALSE)
    /\ compress \in {[pc |-> "input", pages |-> pages] : pages \in PageLists}

\* the attachment tag of a comment is rendered: its pages are compressed
Compress ==
    /\ compress.pc = "input"
    /\ compress' = [pc |-> "done", pages |-> compress.pages,
                    res |-> compressContinuousPages(compress.pages)]
    /\ UNCHANGED <<getUrl, postUrl, geom, widgetVars, selectionVars, cacheVars, viewerVars,
                   hostOpened, guardVars, restoreVars, initialDataHash, store, panel,
                   handlerVars, gets, saves, timerVars, nextId, actions, edits, lastEvent,
                   hist>>

NextPages ==
    \/ Compress

\* one call of compressContinuousPages on one page list
SpecPages == InitPages /\ [][NextPages]_vars

\* the pages an item of the result stands for
Covered(item) == IF item.type = "single" THEN {item.page} ELSE item.start..item.end

\* C38: the result lists, in ascending order, the maximal runs of consecutive
\* pages of the input: every input page is covered by exactly one item, no
\* other page is covered, a run of one page is a 'single' item and a longer one
\* a 'range' item.
C38_CompressCoversEachPageOnce ==
    compress.pc = "done" =>
        LET res == compress.res
            input == {compress.pages[k] : k \in 1..Len(compress.pages)}
        IN /\ \A p \in input : Cardinality({k \in 1..Len(res) : p \in Covered(res[k])}) = 1
           /\ \A k \in 1..Len(res) : Covered(res[k]) \subseteq input
           /\ \A k \in 1..Len(res) : res[k].type = "range" => res[k].start < res[k].end
           /\ \A k \in 1..(Len(res) - 1) :
                 \A p \in Covered(res[k]), q \in Covered(res[k + 1]) : p + 1 < q

\* the same for the page lists without repeated page numbers
C38_CompressDistinctPages ==
    (compress.pc = "done" /\
     \A a, b \in 1..Len(compress.pages) : a # b => compress.pages[a] # compress.pages[b]) =>
        LET res == compress.res
            input == {compress.pages[k] : k \in 1..Len(compress.pages)}
        IN /\ \A p \in input : Cardinality({k \in 1..Len(res) : p \in Covered(res[k])}) = 1
           /\ \A k \in 1..Len(res) : Covered(res[k]) \subseteq input
           /\ \A k \in 1..Len(res) : res[k].type = "range" => res[k].start < res[k].end
           /\ \A k \in 1..(Len(res) - 1) :
                 \A p \in Covered(res[k]), q \in Covered(res[k + 1]) : p + 1 < q

\* ==================================================================== C40
\* commentInput: const rawText = annotation.contentsObj?.text || '';
\* const displayText = annotation.contentsObj?.displayText || rawText.
\* The displayText of a record is the transcript (1) it was written with.
commentDisplay(r) ==
    LET displayText == IF r.id \in displayTexts THEN 1 ELSE Absent
    IN IF displayText # Absent /\ displayText # 0 THEN displayText ELSE r.text

NextComment ==
    \/ UserOpen
    \/ DocumentLoaded
    \/ HandlerSave
    \/ HandlerGet
    \/ GetResponse
    \/ SelectionChange
    \/ MouseUp
    \/ PopbarHighlight
    \/ PopbarSendToAI
    \/ ChatPageText
    \/ ChatAddToAnnotation
    \/ PanelUpdate

\* a session in which highlights are created from the popbar and from the chat
\* popup and their comments are edited in the comment panel
SpecComment == Init /\ [][NextComment]_vars

\* the comment text of a record has just been edited in the comment panel
CommentEdited ==
    lastEvent.kind = "edit" /\ lastEvent.op = "panelupdate" /\ lastEvent.field = "text"

\* C40: after the comment text of an annotation is edited in the comment
\* panel, the panel displays the new text, whether or not the annotation's
\* contentsObj carries a displayText.
C40_PanelDisplaysEditedText ==
    CommentEdited => commentDisplay(RecordOf(panel, lastEvent.id)) = lastEvent.v

\* the same for the annotations whose contentsObj carries no displayText
C40_PanelDisplaysEditedPlainText ==
    (CommentEdited /\ lastEvent.id \notin displayTexts) =>
        commentDisplay(RecordOf(panel, lastEvent.id)) = lastEvent.v

\* the comment of a highlight made from the popbar has been edited
C40_WitnessPlain ==
    CommentEdited /\ lastEvent.id \notin displayTexts /\ lastEvent.id \in Ids(panel)

====
